---- MODULE Spec2Model ----
(***************************************************************************)
(* sconfig: LoadConfig of src/sconfig.go as a state machine, and the flat   *)
(* form, EnvLoader of src/php/src/EnvLoader.php, as a second one.          *)
(*                                                                         *)
(* The state is the process (the package variables of sconfig.go), the    *)
(* config file on disk and the caller's record after the last call.  One  *)
(* action is one whole call of LoadConfig; the other actions are the       *)
(* environment: a user editing the file and the process being restarted.  *)
(* The default hardware-id function is a third machine, and two goroutines *)
(* of one process inside LoadConfig at the same time, where every read and *)
(* write of a package variable is a step, a fourth.                        *)
(*                                                                         *)
(* Strings are symbolic.  A text is Txt(s).  The base64 text that encrypt *)
(* returns is Sealed(k, n, pt): nonce n, followed by the AES-GCM seal of   *)
(* pt under key k.  AES-GCM is taken as an ideal AEAD: Open succeeds on    *)
(* exactly the values Seal produced under the same key, and the nonce that *)
(* rand.Reader yields differs from every nonce of a sealed value that      *)
(* still exists, on disk or in memory.                                     *)
(***************************************************************************)
EXTENDS Integers, Sequences, FiniteSets, TLC

VARIABLES
    cfgType,                \* the struct type the caller loads (fixed per behaviour)
    alive,                  \* the process is running
    lang,                   \* i18n: the active language of the process
    initialized,            \* sconfig.go:62
    encryptionKey,          \* sconfig.go:61 (0 is the nil slice)
    hardwareID,             \* sconfig.go:887: the id the key was derived from
    PASSWORD_IS_SECURE,     \* sconfig.go:51
    PASSWORD_IS_SECURE_en,  \* sconfig.go:55
    PASSWORD_IS_SECURE_de,  \* sconfig.go:59
    file,                   \* the config file at path
    config,                 \* the caller's record after the last call
    ret,                    \* how the last call of LoadConfig ended
    edits,                  \* edits the user has made to the file
    allSealingCallsOk,      \* every call so far had cleanConfig=false and returned nil
    call                    \* the last call: its arguments and what it did

\* The flat form, src/php/src/EnvLoader.php: a PHP process and its .env file.
VARIABLES
    envFile,                \* the .env file at filePath
    cache,                  \* EnvLoader.php:34 self::$cache
    ENV,                    \* the superglobal $_ENV
    environ,                \* the process environment: putenv / getenv
    envKey,                 \* EnvLoader.php:49 self::$encryptionKey (0 is null)
    envLoaded,              \* EnvLoader.php:39 self::$loaded
    envHost,                \* the hardware id getHardwareID() finds on this host
    envEdits,               \* documents the user has put at filePath
    envCall                 \* the last call of the loader and what it returned

\* The default hardware-id function, sconfig.go:298-779.
VARIABLES
    probes,                 \* what the probes of the last call reported, in collection order
    identifiers,            \* sconfig.go:306 identifiers, as the call hashed it
    hwid                    \* what the call returned: [ok, id]

\* Goroutines of one process that call LoadConfig at the same time.
VARIABLES
    goroutine,              \* per goroutine: where it is in LoadConfig, its argument and locals
    derivations,            \* how often sconfig.go:886-899 has run in the process
    overlapped,             \* a goroutine has entered LoadConfig while another was in it
    firstCall               \* the goroutine that entered LoadConfig first

goVars == <<cfgType, alive, lang, initialized, encryptionKey, hardwareID, PASSWORD_IS_SECURE,
            PASSWORD_IS_SECURE_en, PASSWORD_IS_SECURE_de, file, config, ret, edits,
            allSealingCallsOk, call>>

phpVars == <<envFile, cache, ENV, environ, envKey, envLoaded, envHost, envEdits, envCall>>

hwVars == <<probes, identifiers, hwid>>

raceVars == <<goroutine, derivations, overlapped, firstCall>>

vars == <<cfgType, alive, lang, initialized, encryptionKey, hardwareID, PASSWORD_IS_SECURE,
          PASSWORD_IS_SECURE_en, PASSWORD_IS_SECURE_de, file, config, ret, edits,
          allSealingCallsOk, call,
          envFile, cache, ENV, environ, envKey, envLoaded, envHost, envEdits, envCall,
          probes, identifiers, hwid,
          goroutine, derivations, overlapped, firstCall>>

(***************************************************************************)
(* Bounds of the model.                                                    *)
(***************************************************************************)
MaxVersion == 2     \* expected versions are 1..MaxVersion
MaxServers == 1     \* longest Servers slice a caller presets
MaxEdits == 1       \* edits a user makes to the file
MaxProbes == 4      \* identifiers the probes of one call report

(***************************************************************************)
(* Strings.                                                                *)
(***************************************************************************)
Txt(s) == [text |-> s]
Sealed(k, n, pt) == [key |-> k, nonce |-> n, pt |-> pt]
IsSealed(x) == DOMAIN x = {"key", "nonce", "pt"}
EmptyString == Txt("")

\* The secrets a user types.
Secrets == {Txt("s3cret"), Txt("n3wpass")}

NonceSize == 12     \* gcm.NonceSize()
TagSize == 16       \* gcm.Overhead()

\* len(data) after data, _ := base64.StdEncoding.DecodeString(text): the bytes
\* decoded before the first character outside the alphabet, in whole quanta of
\* 4 characters -> 3 bytes.  A sealed value is nonce (12) + text + tag (16).
\* "s3cret": "s3cr" -> 3, "et" incomplete.  "n3wpass": "n3wp" -> 3, "ass"
\* incomplete.  Both markers: one quantum ("Ente", "Hier"), then a space.
\* IsSealed(x) is tested first: the other arms compare texts.
StdDecodedLen(x) ==
    CASE IsSealed(x) -> NonceSize + TagSize     \* at least: the text adds to it
      [] x = Txt("") -> 0
      [] x = Txt("api-secure-key") -> 0           \* "api-": no whole quantum
      [] x = Txt("plaintext-api-key") -> 6        \* "plai", "ntex", then "t-ap"
      [] x = Txt("QUJDREVGR0hJSktMTU5PUA==") -> 16 \* the 16 bytes "ABCDEFGHIJKLMNOP"
      [] OTHER -> 3

(***************************************************************************)
(* The struct types a caller passes, as reflect shows them: the fields in  *)
(* declaration order, each with its name, kind, element type and default   *)
(* tag.  A name is the sequence of its words, so that HasSuffix and        *)
(* TrimSuffix are computed on it.                                          *)
(***************************************************************************)
Fld(name, kind, elem, tag) == [name |-> name, kind |-> kind, elem |-> elem, tag |-> tag]

TestConfig ==
    << Fld(<<"Version">>, "int", "", {"1"}),
       Fld(<<"Database", "Password">>, "string", "", {}),
       Fld(<<"Database", "Secure", "Password">>, "string", "", {}),
       Fld(<<"API", "Key">>, "string", "", {}),
       Fld(<<"API", "Secure", "Key">>, "string", "", {}),
       \* declared second in the source: no pass depends on its position
       Fld(<<"Database", "Host">>, "string", "", {"localhost"}) >>

NestedTestConfig ==
    << Fld(<<"Version">>, "int", "", {"2"}),
       Fld(<<"Main", "Config">>, "struct", "TestConfig", {}),
       Fld(<<"Secondary", "Config">>, "struct", "TestConfig", {}) >>

TestSliceConfig ==
    << Fld(<<"Version">>, "int", "", {"3"}),
       Fld(<<"Servers">>, "slice", "TestConfig", {}) >>

\* A record with a SecurePassword field that has no Password sibling.
OrphanConfig ==
    << Fld(<<"Version">>, "int", "", {}),
       Fld(<<"Token", "Secure", "Password">>, "string", "", {}),
       Fld(<<"DB", "Password">>, "string", "", {}),
       Fld(<<"DB", "Secure", "Password">>, "string", "", {}) >>

\* A record with a secret named "" and a secret named "Secure": the field
\* SecurePassword is the ciphertext field of the first and the plaintext field
\* of the second.
ChainConfig ==
    << Fld(<<"Version">>, "int", "", {}),
       Fld(<<"Password">>, "string", "", {}),
       Fld(<<"Secure", "Secure", "Password">>, "string", "", {}),
       Fld(<<"Secure", "Password">>, "string", "", {}) >>

\* The same record with its two SecurePassword fields declared in the other
\* order.
ChainConfigReordered ==
    << Fld(<<"Version">>, "int", "", {}),
       Fld(<<"Password">>, "string", "", {}),
       Fld(<<"Secure", "Password">>, "string", "", {}),
       Fld(<<"Secure", "Secure", "Password">>, "string", "", {}) >>

NestedChainConfig ==
    << Fld(<<"Version">>, "int", "", {}),
       Fld(<<"Inner">>, "struct", "ChainConfig", {}) >>

\* A record without a secret: a version and a host with a default.
PlainConfig ==
    << Fld(<<"Version">>, "int", "", {}),
       Fld(<<"Host">>, "string", "", {"localhost"}) >>

TypeOf(t) ==
    CASE t = "TestConfig" -> TestConfig
      [] t = "PlainConfig" -> PlainConfig
      [] t = "ChainConfig" -> ChainConfig
      [] t = "ChainConfigReordered" -> ChainConfigReordered
      [] t = "NestedChainConfig" -> NestedChainConfig
      [] t = "NestedTestConfig" -> NestedTestConfig
      [] t = "TestSliceConfig" -> TestSliceConfig
      [] t = "OrphanConfig" -> OrphanConfig

NumField(t) == Len(TypeOf(t))

SecurePasswordSuffix == <<"Secure", "Password">>

\* strings.HasSuffix(field.Name, "SecurePassword")
HasSuffix(name, suffix) ==
    /\ Len(name) >= Len(suffix)
    /\ SubSeq(name, Len(name) - Len(suffix) + 1, Len(name)) = suffix

\* strings.TrimSuffix(field.Name, "SecurePassword")
TrimSuffix(name, suffix) ==
    IF HasSuffix(name, suffix) THEN SubSeq(name, 1, Len(name) - Len(suffix)) ELSE name

\* for j := 0; j < t.NumField(); j++ { if t.Field(j).Name == pw_prefix+"Password" {...; break} }
\* the index of the first field with that name, 0 when there is none
SiblingIndex(t, pw_prefix) ==
    LET hits == {j \in 1..NumField(t) : TypeOf(t)[j].name = pw_prefix \o <<"Password">>}
    IN  IF hits = {} THEN 0 ELSE CHOOSE j \in hits : \A k \in hits : j <= k

\* The zero value of a type: what &T{} holds.
RECURSIVE Zero(_)
Zero(t) ==
    [i \in 1..NumField(t) |->
        LET f == TypeOf(t)[i]
        IN  CASE f.kind = "int" -> 0
              [] f.kind = "string" -> EmptyString
              [] f.kind = "struct" -> Zero(f.elem)
              [] f.kind = "slice" -> <<>>]

(***************************************************************************)
(* Key derivation and the codec.                                           *)
(***************************************************************************)
\* mathRand.NewSource(int64(hardwareID)): math/rand seeds its generator with
\* seed % (2^31 - 1), and with 89482311 when that is 0.  The hardware ids of
\* the model are below 2^31, so int64(hardwareID) is never negative.
Seed(id) ==
    LET seed == id % 2147483647
    IN  IF seed = 0 THEN 89482311 ELSE seed

\* The 32 key bytes are the first 32 draws of the seeded generator: a function
\* of the seed alone.  A key is named by the seed that produced it.
KeyOf(id) == Seed(id)

\* io.ReadFull(rand.Reader, nonce): a nonce no sealed value in use carries
Fresh(used) == CHOOSE n \in 1..(Cardinality(used) + 1) :
                    /\ n \notin used
                    /\ \A m \in 1..(n - 1) : m \in used

\* the nonces of a string: its own when it is a sealed value, and those of
\* the text sealed in it
RECURSIVE NoncesOf(_)
NoncesOf(x) == IF IsSealed(x) THEN {x.nonce} \cup NoncesOf(x.pt) ELSE {}

\* encrypt as it would be if the seal did not depend on the key of the process
sealWithoutKey(key, text, used) == Sealed(0, Fresh(used), text)

\* encrypt: a fresh nonce, gcm.Seal(nonce, nonce, text, nil), base64.
encrypt(key, text, used) == Sealed(key, Fresh(used), text)

\* decrypt as it would be if gcm.Open accepted a seal made under any key
openUnderAnyKey(key, text) ==
    IF StdDecodedLen(text) < NonceSize
    THEN [res |-> "panic", password |-> EmptyString]
    ELSE IF IsSealed(text)
         THEN [res |-> "nil", password |-> text.pt]
         ELSE [res |-> "err", password |-> EmptyString]

\* decrypt: the base64 error is dropped; data[:nonceSize], data[nonceSize:]
\* panics when fewer than nonceSize bytes were decoded; gcm.Open fails on a
\* ciphertext shorter than the tag and on every value that is not a seal
\* under the key.  string(plaintext) of the nil slice is "".
decrypt(key, text) ==
    IF StdDecodedLen(text) < NonceSize
    THEN [res |-> "panic", password |-> EmptyString]
    ELSE IF IsSealed(text) /\ text.key = key
         THEN [res |-> "nil", password |-> text.pt]
         ELSE [res |-> "err", password |-> EmptyString]

(***************************************************************************)
(* updateDefaultValues.                                                    *)
(***************************************************************************)
\* strconv.Atoi of the default tags the types above carry.
Atoi(s) ==
    CASE s = "1" -> [ok |-> TRUE, value |-> 1]
      [] s = "2" -> [ok |-> TRUE, value |-> 2]
      [] s = "3" -> [ok |-> TRUE, value |-> 3]
      [] OTHER -> [ok |-> FALSE, value |-> 0]

RECURSIVE updateDefaultValues(_, _)
RECURSIVE DefaultFields(_, _, _)
RECURSIVE DefaultElems(_, _, _)

\* the elements of a slice field, from index k on; st = [v |-> slice, err]
DefaultElems(et, k, st) ==
    IF st.err \/ k > Len(st.v) THEN st
    ELSE LET r == updateDefaultValues(et, st.v[k])
         IN  DefaultElems(et, k + 1, [v |-> [st.v EXCEPT ![k] = r.v], err |-> r.err])

\* the fields of a struct, from field i on; st = [v |-> struct, err]
DefaultFields(t, i, st) ==
    IF st.err \/ i > NumField(t) THEN st
    ELSE LET f == TypeOf(t)[i]
             r == CASE f.kind = "struct" -> updateDefaultValues(f.elem, st.v[i])
                    [] f.kind = "slice" -> DefaultElems(f.elem, 1, [v |-> st.v[i], err |-> FALSE])
                    [] f.tag = {} -> [v |-> st.v[i], err |-> FALSE]
                    [] f.kind = "string" -> [v |-> Txt(CHOOSE d \in f.tag : TRUE), err |-> FALSE]
                    [] f.kind = "int" ->
                        LET a == Atoi(CHOOSE d \in f.tag : TRUE)
                        IN  [v |-> IF a.ok THEN a.value ELSE st.v[i], err |-> ~a.ok]
         IN  DefaultFields(t, i + 1, [v |-> [st.v EXCEPT ![i] = r.v], err |-> r.err])

updateDefaultValues(t, v) == DefaultFields(t, 1, [v |-> v, err |-> FALSE])

(***************************************************************************)
(* updateVersionAndPasswords: the seal pass.  g holds the package          *)
(* variables as config_init left them; st threads the record, the changed  *)
(* flag and the nonces in use.                                             *)
(***************************************************************************)
RECURSIVE updateVersionAndPasswords(_, _, _, _)
RECURSIVE SealFields(_, _, _, _, _)
RECURSIVE SealElems(_, _, _, _, _)

\* the seal pass as it would be if it left the plaintext in XPassword
SealScalarKeepsPlaintext(g, t, i, version, st) ==
    LET f == TypeOf(t)[i]
        stale == f.name = <<"Version">> /\ st.v[i] # version
        v1 == IF stale THEN [st.v EXCEPT ![i] = version] ELSE st.v
        j == IF HasSuffix(f.name, SecurePasswordSuffix)
             THEN SiblingIndex(t, TrimSuffix(f.name, SecurePasswordSuffix))
             ELSE 0
    IN  IF j # 0 /\ v1[j] # g.de /\ v1[j] # g.en
        THEN [v |-> [v1 EXCEPT ![i] = encrypt(g.key, v1[j], st.used)],
              changed |-> TRUE,
              used |-> st.used \cup {Fresh(st.used)}]
        ELSE [v |-> v1, changed |-> st.changed \/ stale, used |-> st.used]

\* sconfig.go:1009-1034, for the field i of a struct of type t
SealScalar(g, t, i, version, st) ==
    LET f == TypeOf(t)[i]
        stale == f.name = <<"Version">> /\ st.v[i] # version
        v1 == IF stale THEN [st.v EXCEPT ![i] = version] ELSE st.v
        j == IF HasSuffix(f.name, SecurePasswordSuffix)
             THEN SiblingIndex(t, TrimSuffix(f.name, SecurePasswordSuffix))
             ELSE 0
    IN  IF j # 0 /\ v1[j] # g.de /\ v1[j] # g.en
        THEN [v |-> [[v1 EXCEPT ![i] = encrypt(g.key, v1[j], st.used)]
                        EXCEPT ![j] = g.mark],
              changed |-> TRUE,
              used |-> st.used \cup {Fresh(st.used)}]
        ELSE [v |-> v1, changed |-> st.changed \/ stale, used |-> st.used]

SealElems(g, et, k, version, st) ==
    IF k > Len(st.v) THEN st
    ELSE LET r == updateVersionAndPasswords(g, et, version,
                        [v |-> st.v[k], changed |-> st.changed, used |-> st.used])
         IN  SealElems(g, et, k + 1, version,
                        [r EXCEPT !.v = [st.v EXCEPT ![k] = r.v]])

SealFields(g, t, i, version, st) ==
    IF i > NumField(t) THEN st
    ELSE LET f == TypeOf(t)[i]
             sub == [v |-> st.v[i], changed |-> st.changed, used |-> st.used]
             r == CASE f.kind = "struct" -> updateVersionAndPasswords(g, f.elem, version, sub)
                    [] f.kind = "slice" -> SealElems(g, f.elem, 1, version, sub)
                    [] OTHER -> sub
         IN  IF f.kind \in {"struct", "slice"}
             THEN SealFields(g, t, i + 1, version, [r EXCEPT !.v = [st.v EXCEPT ![i] = r.v]])
             ELSE SealFields(g, t, i + 1, version, SealScalar(g, t, i, version, st))

\* the seal pass as it would be if only the top-level Version were set
updateTopLevelVersion(g, t, version, st) ==
    LET r == SealFields(g, t, 1, version, st)
        own == {i \in 1..NumField(t) : TypeOf(t)[i].name = <<"Version">>}
    IN  IF t = cfgType THEN r
        ELSE [r EXCEPT !.v = [i \in 1..NumField(t) |->
                                IF i \in own THEN st.v[i] ELSE r.v[i]]]

updateVersionAndPasswords(g, t, version, st) == SealFields(g, t, 1, version, st)

(***************************************************************************)
(* decodePasswords: the decrypt pass.  st = [v, res, prefix]: the record,  *)
(* "nil" while no decrypt failed, and the prefix of the pair that failed.  *)
(***************************************************************************)
RECURSIVE decodePasswords(_, _, _)
RECURSIVE DecodeFields(_, _, _, _)
RECURSIVE DecodeElems(_, _, _, _)

\* the decrypt pass as it would be if an XSecurePassword without a sibling
\* were an error
DecodeScalarStrict(g, t, i, st) ==
    LET f == TypeOf(t)[i]
        j == IF HasSuffix(f.name, SecurePasswordSuffix)
             THEN SiblingIndex(t, TrimSuffix(f.name, SecurePasswordSuffix))
             ELSE 0
        d == decrypt(g.key, st.v[i])
    IN  IF ~HasSuffix(f.name, SecurePasswordSuffix) THEN st
        ELSE IF j # 0 /\ d.res = "nil"
             THEN [st EXCEPT !.v = [st.v EXCEPT ![j] = d.password]]
             ELSE [st EXCEPT !.res = IF j = 0 THEN "err" ELSE d.res,
                             !.prefix = TrimSuffix(f.name, SecurePasswordSuffix)]

\* sconfig.go:1070-1084
DecodeScalar(g, t, i, st) ==
    LET f == TypeOf(t)[i]
        j == IF HasSuffix(f.name, SecurePasswordSuffix)
             THEN SiblingIndex(t, TrimSuffix(f.name, SecurePasswordSuffix))
             ELSE 0
        d == decrypt(g.key, st.v[i])
    IN  IF j = 0 THEN st
        ELSE IF d.res = "nil"
             THEN [st EXCEPT !.v = [st.v EXCEPT ![j] = d.password]]
             ELSE [st EXCEPT !.res = d.res, !.prefix = TrimSuffix(f.name, SecurePasswordSuffix)]

DecodeElems(g, et, k, st) ==
    IF st.res # "nil" \/ k > Len(st.v) THEN st
    ELSE LET r == decodePasswords(g, et, [st EXCEPT !.v = st.v[k]])
         IN  DecodeElems(g, et, k + 1, [r EXCEPT !.v = [st.v EXCEPT ![k] = r.v]])

DecodeFields(g, t, i, st) ==
    IF st.res # "nil" \/ i > NumField(t) THEN st
    ELSE LET f == TypeOf(t)[i]
             sub == [st EXCEPT !.v = st.v[i]]
             r == CASE f.kind = "struct" -> decodePasswords(g, f.elem, sub)
                    [] f.kind = "slice" -> DecodeElems(g, f.elem, 1, sub)
                    [] OTHER -> sub
         IN  IF f.kind \in {"struct", "slice"}
             THEN DecodeFields(g, t, i + 1, [r EXCEPT !.v = [st.v EXCEPT ![i] = r.v]])
             ELSE DecodeFields(g, t, i + 1, DecodeScalar(g, t, i, st))

decodePasswords(g, t, st) == DecodeFields(g, t, 1, st)

(***************************************************************************)
(* The pairs of a record: every field whose name ends in SecurePassword    *)
(* and has a sibling <prefix>Password in the same struct.  at is the path  *)
(* of the struct (field and element indices), sec and pw the two fields.   *)
(***************************************************************************)
RECURSIVE Pairs(_, _)
Pairs(t, v) ==
    UNION { LET f == TypeOf(t)[i]
                j == IF HasSuffix(f.name, SecurePasswordSuffix)
                     THEN SiblingIndex(t, TrimSuffix(f.name, SecurePasswordSuffix))
                     ELSE 0
            IN  CASE f.kind = "struct" ->
                        {[p EXCEPT !.at = <<i>> \o p.at] : p \in Pairs(f.elem, v[i])}
                  [] f.kind = "slice" ->
                        UNION {{[p EXCEPT !.at = <<i, k>> \o p.at] : p \in Pairs(f.elem, v[i][k])}
                               : k \in 1..Len(v[i])}
                  [] OTHER ->
                        IF j = 0 THEN {} ELSE {[at |-> <<>>, sec |-> i, pw |-> j]}
          : i \in 1..NumField(t) }

RECURSIVE GetAt(_, _)
GetAt(v, path) == IF path = <<>> THEN v ELSE GetAt(v[Head(path)], Tail(path))

RECURSIVE SetAt(_, _, _)
SetAt(v, path, x) ==
    IF path = <<>> THEN x
    ELSE [v EXCEPT ![Head(path)] = SetAt(v[Head(path)], Tail(path), x)]

PwOf(v, p) == GetAt(v, p.at)[p.pw]        \* the XPassword field of pair p
SecOf(v, p) == GetAt(v, p.at)[p.sec]      \* the XSecurePassword field of pair p

(***************************************************************************)
(* The file and the JSON codec.  The file is absent or holds the document  *)
(* LoadConfig or a user wrote.  The struct types carry no omitempty tag,   *)
(* so a written document defines every field and Unmarshal replaces every  *)
(* field of the record, slices included.  A document a user wrote may      *)
(* leave top-level fields out.                                             *)
(***************************************************************************)
Missing == [exists |-> FALSE, json |-> <<>>]

MarshalIndent(v) == v

\* The bytes of a file that json.Unmarshal rejects for the record: they are no
\* JSON object, or they give a field a value of another type.  Such a document
\* defines index 0 only; a JSON object defines the fields it names.
Rejected(s) == [i \in {0} |-> s]
InvalidDocuments == {Rejected("{\"invalid\": json}"), Rejected("{\"version\": \"one\"}")}
ValidJSON(f) == 0 \notin DOMAIN f.json

\* file = []byte("{}") when the file does not exist: no field is touched.  A
\* field the document does not name keeps the value it had.
RECURSIVE Decoded(_, _, _)
Decoded(json, v, n) ==
    IF n = 0 THEN <<>>
    ELSE Append(Decoded(json, v, n - 1), IF n \in DOMAIN json THEN json[n] ELSE v[n])

Unmarshal(f, v) == IF f.exists THEN Decoded(f.json, v, Len(v)) ELSE v

(***************************************************************************)
(* config_init.  t(key) in language l is the i18n lookup.                  *)
(***************************************************************************)
Langs == {"en", "de"}

\* The languages an application can make the active one: those with a
\* translation, and one without, for which t answers in English (README.md:
\* English is the default and the fallback).
ActiveLangs == Langs \cup {"fr"}

t(l, key) ==
    IF key = "config.password_message"
    THEN IF l = "de" THEN Txt("Hier neues Passwort eintragen")
                     ELSE Txt("Enter new password here")
    ELSE Txt(key)

\* The package variables as a record.
NoHardwareID == -1

Globals == [initialized |-> initialized, key |-> encryptionKey, hardwareID |-> hardwareID,
            mark |-> PASSWORD_IS_SECURE, en |-> PASSWORD_IS_SECURE_en,
            de |-> PASSWORD_IS_SECURE_de, fatal |-> FALSE]

\* config_init as it would be if the canonical marker were looked up before
\* the translations are loaded: t answers with the key
config_initUntranslated(hw) ==
    IF initialized THEN Globals
    ELSE IF ~hw.ok THEN [Globals EXCEPT !.fatal = TRUE]
    ELSE [initialized |-> TRUE,
          hardwareID |-> hw.id,
          key |-> KeyOf(hw.id),
          de |-> t("de", "config.password_message"),
          en |-> t("en", "config.password_message"),
          mark |-> Txt("config.password_message"),
          fatal |-> FALSE]

\* config_init as it would be without the initialized guard
config_initEveryCall(hw) ==
    IF ~hw.ok THEN [Globals EXCEPT !.fatal = TRUE]
    ELSE [Globals EXCEPT !.initialized = TRUE, !.hardwareID = hw.id, !.key = KeyOf(hw.id)]

\* hw is what getHardwareID_func returns: [ok, id].  log.Fatalf ends the
\* process before initialized is set.
config_init(hw) ==
    IF initialized THEN Globals
    ELSE IF ~hw.ok THEN [Globals EXCEPT !.fatal = TRUE]
    ELSE [initialized |-> TRUE,
          hardwareID |-> hw.id,
          key |-> KeyOf(hw.id),
          de |-> t("de", "config.password_message"),
          en |-> t("en", "config.password_message"),
          mark |-> t(lang, "config.password_message"),
          fatal |-> FALSE]

(***************************************************************************)
(* LoadConfig.                                                             *)
(***************************************************************************)
\* sconfig.go:849 and sconfig.go:865: where the decrypt pass runs
DecodeBeforeWrite(cleanConfig) == cleanConfig
\* the second decrypt pass as it would be without its condition
DecodeAlways(cleanConfig) == TRUE
DecodeAfterWrite(cleanConfig) == ~cleanConfig

\* the write as it would be if only cleanConfig caused it
WriteWhenClean(changed, cleanConfig) == cleanConfig

\* sconfig.go:856: whether the file is written, given the flag of the seal pass
MustWrite(changed, cleanConfig) == changed \/ cleanConfig

NoConfig == <<>>

\* What a caller passes that is no pointer to a struct: a struct by value, a
\* pointer to a string.  Such an argument has no fields; it defines index 0.
NoStructPointers == {[i \in {0} |-> "TestConfig{}"], [i \in {0} |-> "not a struct"]}
IsStructPointer(c) == 0 \notin DOMAIN c

\* the outcome of a call that returns before the seal pass
Refused(err, c, f) ==
    [ret |-> err, config |-> c, file |-> f, sealed |-> 0,
     changed |-> FALSE, wrote |-> FALSE, decodes |-> 0, prefix |-> <<>>]

\* sconfig.go:817-871: the call after config_init, on file f, with the
\* nonces in use.  The result names every effect of the call.
Load(g, ty, f, preset, version, cleanConfig, used) ==
    LET d == updateDefaultValues(ty, preset)
        loaded == Unmarshal(f, d.v)
        s == updateVersionAndPasswords(g, ty, version,
                    [v |-> loaded, changed |-> FALSE, used |-> used])
        s0 == [v |-> s.v, res |-> "nil", prefix |-> <<>>]
        c == IF DecodeBeforeWrite(cleanConfig) THEN decodePasswords(g, ty, s0) ELSE s0
        wrote == c.res = "nil" /\ MustWrite(s.changed, cleanConfig)
        e == IF c.res = "nil" /\ DecodeAfterWrite(cleanConfig)
             THEN decodePasswords(g, ty, c) ELSE c
        n1 == IF DecodeBeforeWrite(cleanConfig) THEN 1 ELSE 0
        n2 == IF c.res = "nil" /\ DecodeAfterWrite(cleanConfig) THEN 1 ELSE 0
    IN  IF ~IsStructPointer(preset) THEN Refused("config_no_struct", NoConfig, f)
        ELSE IF d.err THEN Refused("failed_defaulting", d.v, f)
        ELSE IF f.exists /\ ~ValidJSON(f) THEN Refused("failed_parsing", d.v, f)
        ELSE [ret |-> CASE e.res = "nil" -> "nil"
                        [] e.res = "err" -> "failed_decode_pw"
                        [] e.res = "panic" -> "panic",
              config |-> e.v,
              file |-> IF wrote THEN [exists |-> TRUE, json |-> MarshalIndent(c.v)] ELSE f,
              sealed |-> Cardinality(s.used \ used),
              changed |-> IF c.res = "nil" THEN MustWrite(s.changed, cleanConfig) ELSE s.changed,
              wrote |-> wrote, decodes |-> n1 + n2, prefix |-> e.prefix]

NoCall == [version |-> 0, clean |-> FALSE, preset |-> NoConfig, sealed |-> 0,
           changed |-> FALSE, wrote |-> FALSE, decodes |-> 0,
           prefix |-> <<>>, first |-> FALSE]

\* The nonces of the sealed values of a record.
RECURSIVE Nonces(_, _)
Nonces(ty, v) ==
    UNION { LET f == TypeOf(ty)[i]
            IN  CASE f.kind = "struct" -> Nonces(f.elem, v[i])
                  [] f.kind = "slice" -> UNION {Nonces(f.elem, v[i][k]) : k \in 1..Len(v[i])}
                  [] f.kind = "string" -> NoncesOf(v[i])
                  [] OTHER -> {}
          : i \in 1..NumField(ty) }

\* The nonces a new one differs from: those on disk and in the caller's memory.
NoncesInUse ==
    (IF file.exists /\ ValidJSON(file)
     THEN Nonces(cfgType, Unmarshal(file, Zero(cfgType))) ELSE {})
        \cup (IF config = NoConfig THEN {} ELSE Nonces(cfgType, config))

\* One call LoadConfig(&preset, version, path, cleanConfig, false, hw).
LoadConfig(preset, version, cleanConfig, hw) ==
    /\ alive
    /\ \E g \in {config_init(hw)} :
        IF g.fatal
        THEN /\ alive' = FALSE
             /\ ret' = "exit"
             /\ config' = NoConfig
             /\ call' = [NoCall EXCEPT !.version = version, !.clean = cleanConfig,
                                       !.preset = preset, !.first = TRUE]
             /\ UNCHANGED <<initialized, encryptionKey, hardwareID, PASSWORD_IS_SECURE,
                            PASSWORD_IS_SECURE_en, PASSWORD_IS_SECURE_de, file>>
        ELSE \E r \in {Load(g, cfgType, file, preset, version, cleanConfig, NoncesInUse)} :
             /\ initialized' = TRUE
             /\ encryptionKey' = g.key
             /\ hardwareID' = g.hardwareID
             /\ PASSWORD_IS_SECURE' = g.mark
             /\ PASSWORD_IS_SECURE_en' = g.en
             /\ PASSWORD_IS_SECURE_de' = g.de
             /\ file' = r.file
             /\ ret' = r.ret
             /\ alive' = (r.ret # "panic")
             /\ config' = IF r.ret = "panic" THEN NoConfig ELSE r.config
             /\ call' = [version |-> version, clean |-> cleanConfig,
                         preset |-> preset, sealed |-> r.sealed,
                         changed |-> r.changed, wrote |-> r.wrote,
                         decodes |-> r.decodes, prefix |-> r.prefix,
                         first |-> ~initialized]
    /\ allSealingCallsOk' = (allSealingCallsOk /\ ~cleanConfig /\ ret' = "nil")
    /\ UNCHANGED <<cfgType, lang, edits>>
    /\ UNCHANGED phpVars
    /\ UNCHANGED hwVars
    /\ UNCHANGED raceVars

(***************************************************************************)
(* The environment.                                                        *)
(***************************************************************************)
\* The pairs of the document on disk.
FilePairs == IF file.exists /\ ValidJSON(file) THEN Pairs(cfgType, file.json) ELSE {}

\* The records with nested structs or slices, and those with overlapping
\* pairs, are loaded on one host, in one language, and edited with one secret;
\* the other records see every input; the flat record of the test suite is
\* also loaded by a process whose active language has no translation.
Tree == cfgType \in {"NestedTestConfig", "TestSliceConfig", "NestedChainConfig"}
Narrow == Tree \/ cfgType = "ChainConfig"
TypeLangs == IF cfgType = "TestConfig" THEN ActiveLangs ELSE Langs
ProcessLangs == IF Narrow THEN {lang} ELSE TypeLangs
TypedSecrets == IF Narrow THEN {Txt("n3wpass")} ELSE Secrets

\* A user types a new secret into the XPassword field of pair p of the file.
UserEdit(p, secret) ==
    /\ edits < MaxEdits
    /\ edits' = edits + 1
    /\ p \in FilePairs
    /\ secret \in TypedSecrets
    /\ PwOf(file.json, p) # secret
    /\ file' = [file EXCEPT !.json = SetAt(@, p.at \o <<p.pw>>, secret)]
    /\ ret' = "none"
    /\ call' = NoCall
    /\ UNCHANGED <<cfgType, alive, lang, initialized, encryptionKey, hardwareID, PASSWORD_IS_SECURE,
                   PASSWORD_IS_SECURE_en, PASSWORD_IS_SECURE_de, config, allSealingCallsOk>>
    /\ UNCHANGED phpVars
    /\ UNCHANGED hwVars
    /\ UNCHANGED raceVars

\* The process ends and a new one starts, on this host or on another, with
\* language l: the package variables are their zero values again.
Restart(l) ==
    /\ l \in ProcessLangs
    /\ alive' = TRUE
    /\ lang' = l
    /\ initialized' = FALSE
    /\ encryptionKey' = 0
    /\ hardwareID' = NoHardwareID
    /\ PASSWORD_IS_SECURE' = EmptyString
    /\ PASSWORD_IS_SECURE_en' = EmptyString
    /\ PASSWORD_IS_SECURE_de' = EmptyString
    /\ config' = NoConfig
    /\ ret' = "none"
    /\ call' = NoCall
    /\ UNCHANGED <<cfgType, file, edits, allSealingCallsOk>>
    /\ UNCHANGED phpVars
    /\ UNCHANGED hwVars
    /\ UNCHANGED raceVars

(***************************************************************************)
(* Inputs.                                                                 *)
(***************************************************************************)
Types == {"TestConfig", "NestedTestConfig", "TestSliceConfig", "OrphanConfig",
          "ChainConfig", "NestedChainConfig", "PlainConfig"}

\* 0 and 89482311 seed the same generator
HardwareIDs == {0, 12345, 89482311}

HwFuncs == {[ok |-> TRUE, id |-> h] : h \in HardwareIDs} \cup {[ok |-> FALSE, id |-> 0]}

Versions == 1..MaxVersion

\* What a caller puts into field i of a record of type ty before the call.
RECURSIVE Presets(_)
RECURSIVE PresetFields(_, _)
RECURSIVE PresetElems(_, _)

PresetElems(et, n) ==
    IF n = 0 THEN {<<>>}
    ELSE {Append(q, x) : q \in PresetElems(et, n - 1), x \in Presets(et)}

PresetScalar(ty, i) ==
    LET f == TypeOf(ty)[i]
        isPw == \E k \in 1..NumField(ty) :
                    /\ HasSuffix(TypeOf(ty)[k].name, SecurePasswordSuffix)
                    /\ SiblingIndex(ty, TrimSuffix(TypeOf(ty)[k].name, SecurePasswordSuffix)) = i
    IN  CASE f.kind = "int" -> {0}
          [] isPw -> {EmptyString, Txt("s3cret")}
          [] f.name = <<"API", "Key">> -> {Txt("plaintext-api-key")}
          [] f.name = <<"API", "Secure", "Key">> -> {Txt("api-secure-key")}
          [] f.name = <<"Token", "Secure", "Password">> -> {Txt("n3wpass")}
          [] OTHER -> {EmptyString}

PresetFields(ty, n) ==
    IF n = 0 THEN {<<>>}
    ELSE LET f == TypeOf(ty)[n]
             xs == CASE f.kind = "struct" -> Presets(f.elem)
                     [] f.kind = "slice" -> UNION {PresetElems(f.elem, m) : m \in 0..MaxServers}
                     [] OTHER -> PresetScalar(ty, n)
         IN  {Append(q, x) : q \in PresetFields(ty, n - 1), x \in xs}

Presets(ty) == PresetFields(ty, NumField(ty))

(***************************************************************************)
(* The flat form: EnvLoader of src/php/src/EnvLoader.php.  A .env file is  *)
(* its KEY=VALUE lines in order; a PHP array is the sequence of its        *)
(* entries, one per key in insertion order.  A key is the sequence of the  *)
(* words that "_" joins.  Values carry no quotes.                          *)
(***************************************************************************)
PASSWORD_IS_SECURE_EN == Txt("Enter new password here")
PASSWORD_IS_SECURE_DE == Txt("Hier neues Passwort eintragen")

DB_PASSWORD == <<"DB", "PASSWORD">>
DB_SECURE_PASSWORD == <<"DB", "SECURE", "PASSWORD">>
APP_ENV == <<"APP", "ENV">>

Entry(key, value) == [key |-> key, value |-> value]

\* the keys of an array, isset($a[$key]), $a[$key], $a[$key] = $value
Keys(a) == {a[i].key : i \in 1..Len(a)}
Isset(a, key) == key \in Keys(a)
Lookup(a, key) == a[CHOOSE i \in 1..Len(a) : a[i].key = key].value
Assign(a, key, value) ==
    IF Isset(a, key)
    THEN [i \in 1..Len(a) |-> IF a[i].key = key THEN Entry(key, value) ELSE a[i]]
    ELSE Append(a, Entry(key, value))

\* the cache, $_ENV and the process environment: key -> value
NoVars == [k \in {} |-> EmptyString]

\* the letters of a word in upper case: the pattern is matched with /i
Upper(w) ==
    CASE w = "db" -> "DB"
      [] w = "secure" -> "SECURE"
      [] w = "password" -> "PASSWORD"
      [] OTHER -> w

\* preg_match('/^(.+)_SECURE_PASSWORD$/i', $key, $matches)
IsSecureKey(key) ==
    /\ Len(key) > 2
    /\ Upper(key[Len(key) - 1]) = "SECURE"
    /\ Upper(key[Len(key)]) = "PASSWORD"

\* $matches[1] . '_PASSWORD'
PasswordKey(key) == SubSeq(key, 1, Len(key) - 2) \o <<"PASSWORD">>

\* empty($value)
Empty(value) == value \in {Txt(""), Txt("0")}

\* EnvLoader.php:283-310: mt_srand($hardwareId) takes the low 32 bits; the
\* hardware ids of the model are below 2^31.  The key is written as a
\* negative number: it is no key of sconfig.go.
EnvKeyOf(id) == 0 - 1 - id

\* EnvLoader.php:407-426
envEncrypt(key, text, used) == Sealed(key, Fresh(used), text)

\* EnvLoader.php:436-466: every failure is a RuntimeException
envDecrypt(key, text) ==
    IF IsSealed(text) /\ text.key = key
    THEN [ok |-> TRUE, text |-> text.pt]
    ELSE [ok |-> FALSE, text |-> EmptyString]

\* EnvLoader.php:162-191, from entry i of the array as it was when the loop
\* began; st = [parsed, changed, used]
RECURSIVE ProcessFrom(_, _, _, _)
ProcessFrom(snap, i, key, st) ==
    IF i > Len(snap) THEN st
    ELSE LET k == snap[i].key
             pk == PasswordKey(k)
         IN  IF /\ IsSecureKey(k)
                /\ Isset(st.parsed, pk)
                /\ Lookup(st.parsed, pk) # PASSWORD_IS_SECURE_EN
                /\ Lookup(st.parsed, pk) # PASSWORD_IS_SECURE_DE
                /\ Lookup(st.parsed, pk) # Txt("")
             THEN ProcessFrom(snap, i + 1, key,
                    [parsed |-> Assign(Assign(st.parsed, k,
                                        envEncrypt(key, Lookup(st.parsed, pk), st.used)),
                                       pk, PASSWORD_IS_SECURE_EN),
                     changed |-> TRUE,
                     used |-> st.used \cup {Fresh(st.used)}])
             ELSE ProcessFrom(snap, i + 1, key, st)

processPasswords(parsed, key, used) ==
    ProcessFrom(parsed, 1, key, [parsed |-> parsed, changed |-> FALSE, used |-> used])

\* EnvLoader.php:199-219, from entry i of the array as it was when the loop
\* began: $value is the value of that array
RECURSIVE DecryptFrom(_, _, _, _)
DecryptFrom(snap, i, key, parsed) ==
    IF i > Len(snap) THEN parsed
    ELSE LET k == snap[i].key
             d == envDecrypt(key, snap[i].value)
         IN  IF IsSecureKey(k) /\ ~Empty(snap[i].value) /\ d.ok
             THEN DecryptFrom(snap, i + 1, key, Assign(parsed, PasswordKey(k), d.text))
             ELSE DecryptFrom(snap, i + 1, key, parsed)

decryptPasswords(parsed, key) == DecryptFrom(parsed, 1, key, parsed)

\* EnvLoader.php:229-277: every line of the file is rewritten with the value
\* of its key, and the keys the file did not have are added
writeEnvFile(parsed) == [exists |-> TRUE, lines |-> parsed]

NoEnvFile == [exists |-> FALSE, lines |-> <<>>]

NoEnvCall == [op |-> "none", override |-> FALSE, clean |-> FALSE,
              key |-> <<>>, value |-> EmptyString, changed |-> FALSE]

\* the nonces of the sealed values that exist, on disk or in memory
EnvNoncesInUse ==
    UNION ({NoncesOf(envFile.lines[i].value) : i \in 1..Len(envFile.lines)}
           \cup {NoncesOf(cache[k]) : k \in DOMAIN cache}
           \cup {NoncesOf(ENV[k]) : k \in DOMAIN ENV}
           \cup {NoncesOf(environ[k]) : k \in DOMAIN environ})

\* EnvLoader.php:126-135: the first update of the cache and the environment
Cached(parsed, override, k) == Isset(parsed, k) /\ (override \/ k \notin DOMAIN cache)
Exported(parsed, override, k) == Cached(parsed, override, k) /\ (override \/ k \notin DOMAIN ENV)

\* EnvLoader.php:138-146: the second update, every key of the array
Stored(m, parsed) ==
    [k \in DOMAIN m \cup Keys(parsed) |-> IF Isset(parsed, k) THEN Lookup(parsed, k) ELSE m[k]]

\* One call EnvLoader::load($filePath, $override, $cleanConfig).
EnvLoad(override, cleanConfig) ==
    \E key \in {IF envKey = 0 THEN EnvKeyOf(envHost) ELSE envKey} :
    \E p1 \in {IF cleanConfig
                THEN [parsed |-> decryptPasswords(envFile.lines, key), changed |-> TRUE]
                ELSE processPasswords(envFile.lines, key, EnvNoncesInUse)} :
    \E p2 \in {IF cleanConfig THEN p1.parsed ELSE decryptPasswords(p1.parsed, key)} :
    \E c1 \in {[k \in DOMAIN cache \cup {j \in Keys(p1.parsed) : Cached(p1.parsed, override, j)} |->
                    IF Cached(p1.parsed, override, k) THEN Lookup(p1.parsed, k) ELSE cache[k]]} :
    \E e1 \in {[k \in DOMAIN ENV \cup {j \in Keys(p1.parsed) : Exported(p1.parsed, override, j)} |->
                    IF Exported(p1.parsed, override, k) THEN Lookup(p1.parsed, k) ELSE ENV[k]]} :
    \E g1 \in {[k \in DOMAIN environ \cup {j \in Keys(p1.parsed) : Exported(p1.parsed, override, j)} |->
                    IF Exported(p1.parsed, override, k) THEN Lookup(p1.parsed, k) ELSE environ[k]]} :
        /\ envKey' = key
        /\ cache' = IF cleanConfig THEN c1 ELSE Stored(c1, p2)
        /\ ENV' = IF cleanConfig THEN e1 ELSE Stored(e1, p2)
        /\ environ' = IF cleanConfig THEN g1 ELSE Stored(g1, p2)
        /\ envFile' = IF p1.changed THEN writeEnvFile(p2)
                      ELSE [exists |-> TRUE, lines |-> envFile.lines]
        /\ envLoaded' = TRUE
        /\ envCall' = [NoEnvCall EXCEPT !.op = "load", !.override = override,
                                        !.clean = cleanConfig, !.changed = p1.changed]
        /\ UNCHANGED <<envHost, envEdits>>
        /\ UNCHANGED goVars
    /\ UNCHANGED hwVars
    /\ UNCHANGED raceVars
        /\ UNCHANGED hwVars
    /\ UNCHANGED raceVars

\* One call EnvLoader::get($key): EnvLoader.php:475-496.  The value found in
\* $_ENV or by getenv() is put into the cache.
EnvGet(k) ==
    /\ k \in DOMAIN cache \cup DOMAIN ENV \cup DOMAIN environ
    /\ \E v \in {IF k \in DOMAIN cache THEN cache[k]
                  ELSE IF k \in DOMAIN ENV THEN ENV[k] ELSE environ[k]} :
        /\ cache' = [j \in DOMAIN cache \cup {k} |-> IF j = k THEN v ELSE cache[j]]
        /\ envCall' = [NoEnvCall EXCEPT !.op = "get", !.key = k, !.value = v]
    /\ UNCHANGED <<envFile, ENV, environ, envKey, envLoaded, envHost, envEdits>>
    /\ UNCHANGED goVars
    /\ UNCHANGED hwVars
    /\ UNCHANGED raceVars

\* EnvLoader::clear(): EnvLoader.php:516-521
EnvClear ==
    /\ cache' = NoVars
    /\ envLoaded' = FALSE
    /\ envCall' = [NoEnvCall EXCEPT !.op = "clear"]
    /\ UNCHANGED <<envFile, ENV, environ, envKey, envHost, envEdits>>
    /\ UNCHANGED goVars
    /\ UNCHANGED hwVars
    /\ UNCHANGED raceVars

\* The .env files a user writes: the file of README.md:88-90, with and
\* without another variable, and a file without secrets.
EnvDocuments ==
    {<<Entry(DB_PASSWORD, Txt("s3cret")), Entry(DB_SECURE_PASSWORD, Txt(""))>>,
     <<Entry(APP_ENV, Txt("local")), Entry(DB_PASSWORD, Txt("s3cret")),
       Entry(DB_SECURE_PASSWORD, Txt(""))>>,
     <<Entry(APP_ENV, Txt("local"))>>,
     <<Entry(<<"db", "password">>, Txt("s3cret")),
       Entry(<<"db", "secure", "password">>, Txt(""))>>,
     <<Entry(DB_PASSWORD, PASSWORD_IS_SECURE_EN),
       Entry(DB_SECURE_PASSWORD, Txt("plaintext-api-key"))>>}

\* A user puts a .env file at filePath.
EnvUserWrite(doc) ==
    /\ envEdits < MaxEdits
    /\ envEdits' = envEdits + 1
    /\ doc \in EnvDocuments
    /\ envFile' = [exists |-> TRUE, lines |-> doc]
    /\ envCall' = NoEnvCall
    /\ UNCHANGED <<cache, ENV, environ, envKey, envLoaded, envHost>>
    /\ UNCHANGED goVars
    /\ UNCHANGED hwVars
    /\ UNCHANGED raceVars

\* The hosts a PHP process runs on, and the environment it is started with.
EnvHosts == {12345, 54321}
EnvEnvirons ==
    {NoVars,
     [k \in {APP_ENV} |-> Txt("production")],
     [k \in {APP_ENV, DB_PASSWORD} |-> IF k = APP_ENV THEN Txt("production") ELSE Txt("n3wpass")]}

\* A PHP process with environment e starts on host h; $_ENV holds the
\* environment or, by variables_order, nothing.
EnvStart(h, e, superglobal) ==
    /\ h \in EnvHosts
    /\ e \in EnvEnvirons
    /\ superglobal \in {NoVars, e}
    /\ envHost' = h
    /\ environ' = e
    /\ ENV' = superglobal
    /\ cache' = NoVars
    /\ envKey' = 0
    /\ envLoaded' = FALSE
    /\ envCall' = NoEnvCall
    /\ UNCHANGED <<envFile, envEdits>>
    /\ UNCHANGED goVars
    /\ UNCHANGED hwVars
    /\ UNCHANGED raceVars

\* no PHP process: the state of the flat form while LoadConfig is checked
EnvIdle ==
    /\ envFile = NoEnvFile
    /\ cache = NoVars
    /\ ENV = NoVars
    /\ environ = NoVars
    /\ envKey = 0
    /\ envLoaded = FALSE
    /\ envHost = 12345
    /\ envEdits = 0
    /\ envCall = NoEnvCall

(***************************************************************************)
(* The default hardware-id function, secure_config_getHardwareID_debug.    *)
(* A string is the sequence of its character codes; the probes report      *)
(* identifiers in the order in which the function runs them, and two       *)
(* probes can report the same string (a placeholder serial, one address on *)
(* two interfaces).                                                        *)
(***************************************************************************)
\* the identifier strings a host reports: "A", "AB", "B"
IdentifierStrings == {<<65>>, <<65, 66>>, <<66>>}

\* '|'
Separator == 124

\* Go's a < b on strings: bytewise, a proper prefix is smaller
RECURSIVE StringLess(_, _)
StringLess(a, b) ==
    /\ b # <<>>
    /\ \/ a = <<>>
       \/ Head(a) < Head(b)
       \/ Head(a) = Head(b) /\ StringLess(Tail(a), Tail(b))

\* sconfig.go:749-755: for i, for j > i, exchange when identifiers[i] > identifiers[j]
RECURSIVE SortFrom(_, _, _)
SortFrom(ids, i, j) ==
    IF i > Len(ids) - 1 THEN ids
    ELSE IF j > Len(ids) THEN SortFrom(ids, i + 1, i + 2)
    ELSE IF StringLess(ids[j], ids[i])
         THEN SortFrom([ids EXCEPT ![i] = ids[j], ![j] = ids[i]], i, j + 1)
         ELSE SortFrom(ids, i, j + 1)

\* strings.Join(identifiers, "|")
RECURSIVE Join(_)
Join(ids) ==
    IF ids = <<>> THEN <<>>
    ELSE IF Len(ids) = 1 THEN ids[1]
    ELSE ids[1] \o <<Separator>> \o Join(Tail(ids))

\* sha256.Sum256 and the first 64 bits of it: a value that names the text hashed
Sum256(text) == [sha256 |-> text]

\* sconfig.go:743-778 on what the probes appended: [ok, identifiers, id]
hardwareIDOf(reports) ==
    IF Len(reports) = 0
    THEN [ok |-> FALSE, identifiers |-> reports, id |-> Sum256(<<>>)]
    ELSE LET sorted == SortFrom(reports, 1, 2)
         IN  [ok |-> TRUE, identifiers |-> sorted, id |-> Sum256(Join(sorted))]

\* what the probes of one call can report
Reports == UNION {[1..n -> IdentifierStrings] : n \in 0..MaxProbes}

\* One call secure_config_getHardwareID() on a host whose probes report reports.
secure_config_getHardwareID(reports) ==
    /\ reports \in Reports
    /\ \E r \in {hardwareIDOf(reports)} :
        /\ probes' = reports
        /\ identifiers' = r.identifiers
        /\ hwid' = [ok |-> r.ok, id |-> r.id]
    /\ UNCHANGED goVars
    /\ UNCHANGED phpVars
    /\ UNCHANGED raceVars

HwIdle ==
    /\ probes = <<>>
    /\ identifiers = <<>>
    /\ hwid = [ok |-> FALSE, id |-> Sum256(<<>>)]

(***************************************************************************)
(* Goroutines of one process in LoadConfig at the same time.  The package  *)
(* variables of sconfig.go:51-62 are plain variables read and written      *)
(* without a lock; every read and write of one is a step of its own.       *)
(***************************************************************************)
Goroutines == {"g1", "g2"}

NoGoroutine == "none"

\* a goroutine that has not called LoadConfig
Waiting == [pc |-> "idle", hw |-> [ok |-> FALSE, id |-> 0], curr_lang |-> "",
            derived |-> FALSE, sealKey |-> 0, sealMark |-> EmptyString, openKey |-> 0]

RaceIdle ==
    /\ goroutine = [g \in Goroutines |-> Waiting]
    /\ derivations = 0
    /\ overlapped = FALSE
    /\ firstCall = NoGoroutine

\* the goroutines inside LoadConfig
Running == {g \in Goroutines : goroutine[g].pc \notin {"idle", "done"}}

\* what a step of a goroutine leaves alone
RaceFrame ==
    /\ UNCHANGED <<cfgType, alive, file, config, ret, edits, allSealingCallsOk, call>>
    /\ UNCHANGED phpVars
    /\ UNCHANGED hwVars

\* sconfig.go:801-815: goroutine g calls LoadConfig with its hardware-id
\* function and reaches config_init.
LoadConfigEnter(g, hw) ==
    /\ goroutine[g].pc = "idle"
    /\ hw.ok
    /\ goroutine' = [goroutine EXCEPT ![g] = [@ EXCEPT !.pc = "guard", !.hw = hw]]
    /\ overlapped' = (overlapped \/ Running # {})
    /\ firstCall' = IF firstCall = NoGoroutine THEN g ELSE firstCall
    /\ UNCHANGED <<lang, initialized, encryptionKey, hardwareID, PASSWORD_IS_SECURE,
                   PASSWORD_IS_SECURE_en, PASSWORD_IS_SECURE_de, derivations>>
    /\ RaceFrame

\* sconfig.go:885: if !initialized
config_initGuard(g) ==
    /\ goroutine[g].pc = "guard"
    /\ goroutine' = [goroutine EXCEPT ![g].pc = IF initialized THEN "done_init" ELSE "key"]
    /\ UNCHANGED <<lang, initialized, encryptionKey, hardwareID, PASSWORD_IS_SECURE,
                   PASSWORD_IS_SECURE_en, PASSWORD_IS_SECURE_de, derivations,
                   overlapped, firstCall>>
    /\ RaceFrame

\* sconfig.go:887-899: the hardware id of the goroutine's function, and the
\* key derived from it
config_initKey(g) ==
    /\ goroutine[g].pc = "key"
    /\ hardwareID' = goroutine[g].hw.id
    /\ encryptionKey' = KeyOf(goroutine[g].hw.id)
    /\ derivations' = derivations + 1
    /\ goroutine' = [goroutine EXCEPT ![g] = [@ EXCEPT !.pc = "curr_lang", !.derived = TRUE]]
    /\ UNCHANGED <<lang, initialized, PASSWORD_IS_SECURE,
                   PASSWORD_IS_SECURE_en, PASSWORD_IS_SECURE_de, overlapped, firstCall>>
    /\ RaceFrame

\* sconfig.go:903-909: the marker setup, one statement a step
config_initMarkers(g) ==
    /\ goroutine[g].pc \in {"curr_lang", "set_de", "t_de", "set_en", "t_en", "restore", "t"}
    /\ LET pc == goroutine[g].pc
           key == "config.password_message"
       IN  /\ goroutine' = [goroutine EXCEPT ![g] =
                    [@ EXCEPT !.pc = CASE pc = "curr_lang" -> "set_de"
                                       [] pc = "set_de" -> "t_de"
                                       [] pc = "t_de" -> "set_en"
                                       [] pc = "set_en" -> "t_en"
                                       [] pc = "t_en" -> "restore"
                                       [] pc = "restore" -> "t"
                                       [] pc = "t" -> "done_init",
                              !.curr_lang = IF pc = "curr_lang" THEN lang ELSE @]]
           /\ lang' = CASE pc = "set_de" -> "de"
                        [] pc = "set_en" -> "en"
                        [] pc = "restore" -> goroutine[g].curr_lang
                        [] OTHER -> lang
           /\ PASSWORD_IS_SECURE_de' = IF pc = "t_de" THEN t(lang, key)
                                       ELSE PASSWORD_IS_SECURE_de
           /\ PASSWORD_IS_SECURE_en' = IF pc = "t_en" THEN t(lang, key)
                                       ELSE PASSWORD_IS_SECURE_en
           /\ PASSWORD_IS_SECURE' = IF pc = "t" THEN t(lang, key) ELSE PASSWORD_IS_SECURE
    /\ UNCHANGED <<initialized, encryptionKey, hardwareID, derivations, overlapped, firstCall>>
    /\ RaceFrame

\* sconfig.go:914: initialized = true
config_initDone(g) ==
    /\ goroutine[g].pc = "done_init"
    /\ initialized' = TRUE
    /\ goroutine' = [goroutine EXCEPT ![g].pc = "seal"]
    /\ UNCHANGED <<lang, encryptionKey, hardwareID, PASSWORD_IS_SECURE,
                   PASSWORD_IS_SECURE_en, PASSWORD_IS_SECURE_de, derivations,
                   overlapped, firstCall>>
    /\ RaceFrame

\* sconfig.go:845: the seal pass of the goroutine reads the key and the marker
LoadConfigSeal(g) ==
    /\ goroutine[g].pc = "seal"
    /\ goroutine' = [goroutine EXCEPT ![g] = [@ EXCEPT !.pc = "open",
                                                       !.sealKey = encryptionKey,
                                                       !.sealMark = PASSWORD_IS_SECURE]]
    /\ UNCHANGED <<lang, initialized, encryptionKey, hardwareID, PASSWORD_IS_SECURE,
                   PASSWORD_IS_SECURE_en, PASSWORD_IS_SECURE_de, derivations,
                   overlapped, firstCall>>
    /\ RaceFrame

\* sconfig.go:865-870: the decrypt pass of the goroutine reads the key
LoadConfigOpen(g) ==
    /\ goroutine[g].pc = "open"
    /\ goroutine' = [goroutine EXCEPT ![g] = [@ EXCEPT !.pc = "done",
                                                       !.openKey = encryptionKey]]
    /\ UNCHANGED <<lang, initialized, encryptionKey, hardwareID, PASSWORD_IS_SECURE,
                   PASSWORD_IS_SECURE_en, PASSWORD_IS_SECURE_de, derivations,
                   overlapped, firstCall>>
    /\ RaceFrame

\* The application switches the active language while goroutines are in
\* LoadConfig.
setLanguage(l) ==
    /\ Running # {}
    /\ l \in ActiveLangs
    /\ l # lang
    /\ lang' = l
    /\ UNCHANGED <<initialized, encryptionKey, hardwareID, PASSWORD_IS_SECURE,
                   PASSWORD_IS_SECURE_en, PASSWORD_IS_SECURE_de>>
    /\ UNCHANGED raceVars
    /\ RaceFrame

(***************************************************************************)
(* The specification.                                                      *)
(***************************************************************************)
Init ==
    /\ cfgType \in Types
    /\ alive = TRUE
    /\ lang \in TypeLangs
    /\ initialized = FALSE
    /\ encryptionKey = 0
    /\ hardwareID = NoHardwareID
    /\ PASSWORD_IS_SECURE = EmptyString
    /\ PASSWORD_IS_SECURE_en = EmptyString
    /\ PASSWORD_IS_SECURE_de = EmptyString
    /\ file = Missing
    /\ config = NoConfig
    /\ ret = "none"
    /\ edits = 0
    /\ allSealingCallsOk = TRUE
    /\ call = NoCall
    /\ EnvIdle
    /\ HwIdle
    /\ RaceIdle

\* The arguments of a call that can make a difference: the override function
\* is not called once the key is set, and a written document replaces every
\* field of the caller's record.
CallerPresets == IF file.exists THEN {Zero(cfgType)} ELSE Presets(cfgType)
CallerHwFuncs ==
    IF initialized THEN {[ok |-> FALSE, id |-> 0]}
    ELSE IF Narrow THEN {h \in HwFuncs : h.id \in {12345}}
    ELSE HwFuncs

Next ==
    \/ \E preset \in CallerPresets, version \in Versions,
          cleanConfig \in BOOLEAN, hw \in CallerHwFuncs :
            LoadConfig(preset, version, cleanConfig, hw)
    \/ \E p \in FilePairs, secret \in Secrets : UserEdit(p, secret)
    \/ \E l \in ActiveLangs : Restart(l)

Spec == Init /\ [][Next]_vars

\* The same program loading the records without nesting and without
\* overlapping pairs, on every host and in every language.
FlatInit ==
    /\ Init
    /\ ~Narrow

FlatSpec == FlatInit /\ [][Next]_vars

\* The same program loading the records of the test suite that hold nested
\* records and slices of records.
TreeInit ==
    /\ Init
    /\ cfgType \in {"NestedTestConfig", "TestSliceConfig"}

TreeSpec == TreeInit /\ [][Next]_vars

(***************************************************************************)
(* The same program under every input of a call: documents a user wrote by *)
(* hand, arguments that are no record, and an override function in every   *)
(* call.  The records of the test suite are loaded here, and a record      *)
(* without a secret.                                                       *)
(***************************************************************************)
InputTypes == {"TestConfig", "NestedTestConfig", "PlainConfig"}

\* The documents a user writes by hand: rejected ones, and for the flat
\* record a document that names some of its fields (part_001:590-613 names
\* the host, Basic names nothing).
UserDocuments ==
    InvalidDocuments \cup
        (IF cfgType = "TestConfig"
         THEN {(1 :> 1) @@ (2 :> Txt("s3cret")),
               (1 :> 2) @@ (2 :> Txt("s3cret")) @@ (6 :> Txt("existing-host"))}
         ELSE {})

\* What a user leaves in an XSecurePassword field by accident: nothing, a
\* text that is no base64, a base64 text of 16 bytes.
Garbage == {EmptyString, Txt("plaintext-api-key"), Txt("QUJDREVGR0hJSktMTU5PUA==")}

\* A user puts a document at the path.
UserWrite(doc) ==
    /\ edits < MaxEdits
    /\ edits' = edits + 1
    /\ doc \in UserDocuments
    /\ file' = [exists |-> TRUE, json |-> doc]
    /\ ret' = "none"
    /\ call' = NoCall
    /\ UNCHANGED <<cfgType, alive, lang, initialized, encryptionKey, hardwareID, PASSWORD_IS_SECURE,
                   PASSWORD_IS_SECURE_en, PASSWORD_IS_SECURE_de, config, allSealingCallsOk>>
    /\ UNCHANGED phpVars
    /\ UNCHANGED hwVars
    /\ UNCHANGED raceVars

\* A user overwrites the XSecurePassword field of pair p of the file.
UserGarble(p, x) ==
    /\ edits < MaxEdits
    /\ edits' = edits + 1
    /\ p \in FilePairs
    /\ x \in Garbage
    /\ p.sec \in DOMAIN GetAt(file.json, p.at)
    /\ SecOf(file.json, p) # x
    /\ file' = [file EXCEPT !.json = SetAt(@, p.at \o <<p.sec>>, x)]
    /\ ret' = "none"
    /\ call' = NoCall
    /\ UNCHANGED <<cfgType, alive, lang, initialized, encryptionKey, hardwareID, PASSWORD_IS_SECURE,
                   PASSWORD_IS_SECURE_en, PASSWORD_IS_SECURE_de, config, allSealingCallsOk>>
    /\ UNCHANGED phpVars
    /\ UNCHANGED hwVars
    /\ UNCHANGED raceVars

\* one language: the marker texts play no part in what is checked here
InputInit == Init /\ cfgType \in InputTypes /\ lang = "en"

\* a caller passes a fresh record, a record without a secret that already
\* carries the first version, or something that is no record
InputPresets ==
    {Zero(cfgType)} \cup NoStructPointers
        \cup (IF cfgType = "PlainConfig" THEN {<<1, EmptyString>>} ELSE {})

\* an override function in every call: one that fails, and two hosts; once
\* the key is set, a function that fails and the function of another host
InputHwFuncs ==
    IF initialized
    THEN {h \in HwFuncs : ~h.ok \/ (h.id \in {0, 12345} /\ h.id # hardwareID)}
    ELSE {h \in HwFuncs : ~h.ok \/ h.id \in {0, 12345}}

InputNext ==
    \/ \E preset \in InputPresets, version \in {1, MaxVersion},
          cleanConfig \in BOOLEAN, hw \in InputHwFuncs :
            LoadConfig(preset, version, cleanConfig, hw)
    \/ \E doc \in UserDocuments : UserWrite(doc)
    \/ \E p \in FilePairs, x \in Garbage : UserGarble(p, x)
    \/ Restart(lang)

InputSpec == InputInit /\ [][InputNext]_vars

(***************************************************************************)
(* The flat form on its own: no call of LoadConfig.                        *)
(***************************************************************************)
EnvInit ==
    /\ Init
    /\ cfgType = "TestConfig"
    /\ lang = "en"

EnvNext ==
    \/ \E override \in BOOLEAN, cleanConfig \in BOOLEAN : EnvLoad(override, cleanConfig)
    \/ \E k \in {APP_ENV, DB_PASSWORD, DB_SECURE_PASSWORD} : EnvGet(k)
    \/ EnvClear
    \/ \E doc \in EnvDocuments : EnvUserWrite(doc)
    \/ \E h \in EnvHosts, e \in EnvEnvirons, superglobal \in EnvEnvirons :
            EnvStart(h, e, superglobal)

EnvSpec == EnvInit /\ [][EnvNext]_vars

(***************************************************************************)
(* The default hardware-id function on its own.                            *)
(***************************************************************************)
HwInit ==
    /\ Init
    /\ cfgType = "TestConfig"
    /\ lang = "en"

HwNext == \E reports \in Reports : secure_config_getHardwareID(reports)

HwSpec == HwInit /\ [][HwNext]_vars

(***************************************************************************)
(* Two goroutines of one process call LoadConfig at the same time.         *)
(***************************************************************************)
RaceInit ==
    /\ Init
    /\ cfgType = "TestConfig"

RaceNext ==
    \/ \E g \in Goroutines, hw \in HwFuncs : LoadConfigEnter(g, hw)
    \/ \E g \in Goroutines : config_initGuard(g)
    \/ \E g \in Goroutines : config_initKey(g)
    \/ \E g \in Goroutines : config_initMarkers(g)
    \/ \E g \in Goroutines : config_initDone(g)
    \/ \E g \in Goroutines : LoadConfigSeal(g)
    \/ \E g \in Goroutines : LoadConfigOpen(g)
    \/ \E l \in ActiveLangs : setLanguage(l)

RaceSpec == RaceInit /\ [][RaceNext]_vars

(***************************************************************************)
(* What the claims speak of.                                               *)
(***************************************************************************)
\* the two marker texts config_init recognises
Markers == {t(l, "config.password_message") : l \in Langs}

\* the markers the process recognises once config_init has run
Recognised == {PASSWORD_IS_SECURE_de, PASSWORD_IS_SECURE_en}

\* a step of LoadConfig(cleanConfig) that returned nil
Returned(cleanConfig) == call'.version # 0 /\ ret' = "nil" /\ call'.clean = cleanConfig

\* the record of that step after json.Unmarshal, before the seal pass
Loaded == Unmarshal(file, updateDefaultValues(cfgType, call'.preset).v)

\* C1: first-load sealing.  When LoadConfig(cleanConfig=false) returns nil,
\* every pair whose XPassword was loaded with a non-empty text p that is no
\* recognised marker has XPassword = p in memory, a non-empty XSecurePassword
\* other than p in memory, and on disk the canonical marker in XPassword and
\* the in-memory ciphertext in XSecurePassword.
C1_FirstLoadSealing ==
    [][Returned(FALSE) =>
        \A p \in Pairs(cfgType, Loaded) :
            LET x == PwOf(Loaded, p)
            IN  (x # EmptyString /\ x \notin Markers) =>
                    /\ PwOf(config', p) = x
                    /\ SecOf(config', p) # EmptyString
                    /\ SecOf(config', p) # x
                    /\ file'.exists
                    /\ PwOf(file'.json, p) = PASSWORD_IS_SECURE'
                    /\ SecOf(file'.json, p) = SecOf(config', p)]_vars

\* C2: on-disk sealing.  After any sequence of calls LoadConfig with
\* cleanConfig=false that all returned nil, interleaved with edits of the
\* user and restarts of the process, whenever LoadConfig has just returned
\* nil, every XPassword field of the file that has an XSecurePassword sibling
\* holds a recognised marker.
C2_OnDiskSealing ==
    (call.version # 0 /\ ret = "nil" /\ allSealingCallsOk) =>
        \A p \in FilePairs : PwOf(file.json, p) \in Recognised

\* a call has sealed what the user typed into a file that an earlier call sealed
C2_Witness ==
    /\ call.version # 0
    /\ ret = "nil"
    /\ allSealingCallsOk
    /\ edits > 0
    /\ call.sealed > 0
    /\ ~call.first
    /\ \E p \in FilePairs : PwOf(config, p) \in Secrets /\ PwOf(file.json, p) \in Recognised

\* C3: reload of a sealed file.  When LoadConfig(cleanConfig=false) returns
\* nil, every pair that was loaded with a marker in XPassword and a value
\* sealed under the key of the process in XSecurePassword has the sealed
\* plaintext in XPassword in memory and still a marker in XPassword in the
\* file; a pair that the call seals gets in the file a ciphertext other than
\* the one it was loaded with and other than that of every other pair.
C3_ReloadSealedFile ==
    [][Returned(FALSE) =>
        \A p \in Pairs(cfgType, Loaded) :
            LET x == PwOf(Loaded, p)
                c == SecOf(Loaded, p)
            IN  /\ (x \in Markers /\ IsSealed(c) /\ c.key = encryptionKey') =>
                        /\ PwOf(config', p) = c.pt
                        /\ PwOf(file'.json, p) \in Recognised'
                /\ (x \notin Markers) =>
                        /\ IsSealed(SecOf(file'.json, p))
                        /\ SecOf(file'.json, p) # c
                        /\ \A q \in Pairs(cfgType, Loaded) \ {p} :
                                SecOf(file'.json, p) # SecOf(file'.json, q)]_vars

\* the values of the fields named Version of a record, at every depth
RECURSIVE VersionsOf(_, _)
VersionsOf(ty, v) ==
    UNION { LET f == TypeOf(ty)[i]
            IN  CASE f.kind = "struct" -> VersionsOf(f.elem, v[i])
                  [] f.kind = "slice" -> UNION {VersionsOf(f.elem, v[i][k]) : k \in 1..Len(v[i])}
                  [] f.name = <<"Version">> -> {v[i]}
                  [] OTHER -> {}
          : i \in 1..NumField(ty) }

\* a step of LoadConfig(cleanConfig=false) on a file whose paired XPassword
\* fields all hold a marker and whose Version fields all hold the expected one
SettledLoad ==
    /\ call'.version # 0
    /\ ~call'.clean
    /\ file.exists
    /\ \A p \in FilePairs : PwOf(file.json, p) \in Markers
    /\ VersionsOf(cfgType, file.json) = {call'.version}

\* C4: load idempotence.  LoadConfig(cleanConfig=false) on a file whose
\* paired XPassword fields all hold a recognised marker and whose Version
\* fields all equal the expected version leaves the change flag false, does
\* not write the file, and leaves every XSecurePassword of the record as loaded.
C4_LoadIdempotence ==
    [][SettledLoad =>
        /\ ~call'.changed
        /\ ~call'.wrote
        /\ file' = file
        /\ config' # NoConfig =>
                \A p \in FilePairs : SecOf(config', p) = SecOf(file.json, p)]_vars

\* the texts the codec is applied to: what users type, the markers, the
\* other strings of the records, and the sealed values on disk
Plaintexts ==
    Secrets \cup Markers \cup {EmptyString, Txt("plaintext-api-key")}
        \cup {SecOf(file.json, p) : p \in FilePairs}

SealedOn(p, A) ==
    /\ PwOf(Loaded, p) \in Markers
    /\ IsSealed(SecOf(Loaded, p))
    /\ SecOf(Loaded, p).key = KeyOf(A)

\* C6 as claimed: a call of LoadConfig in a process with hardware id B, on a
\* record with a value sealed under the key of a hardware id A # B, returns
\* the decryption error.
C6_CrossHostFailure_DifferentIds ==
    [][(call'.version # 0 /\ initialized'
            /\ \E p \in Pairs(cfgType, Loaded), A \in HardwareIDs :
                    A # hardwareID' /\ SealedOn(p, A))
        => ret' = "failed_decode_pw"]_vars

\* C6: cross-host failure.  A call of LoadConfig in a process with hardware
\* id B, on a record with a value sealed under the key of a hardware id A
\* that derives another key than B, returns the decryption error; a call that
\* returns nil has opened every sealed value it loaded to the text sealed in it.
C6_CrossHostFailure ==
    [][(call'.version # 0 /\ initialized')
        => /\ (\E p \in Pairs(cfgType, Loaded), A \in HardwareIDs :
                    KeyOf(A) # KeyOf(hardwareID') /\ SealedOn(p, A))
                => ret' = "failed_decode_pw"
           /\ ret' = "nil" =>
                \A p \in Pairs(cfgType, Loaded), A \in HardwareIDs :
                    SealedOn(p, A) => PwOf(config', p) = SecOf(Loaded, p).pt]_vars

\* a call has failed on a file that another host sealed
C6_Witness ==
    /\ ret = "failed_decode_pw"
    /\ initialized
    /\ \E p \in FilePairs :
            /\ PwOf(file.json, p) \in Markers
            /\ IsSealed(SecOf(file.json, p))
            /\ SecOf(file.json, p).key # encryptionKey
            /\ call.prefix \o SecurePasswordSuffix = TypeOf(cfgType)[p.sec].name

\* the top-level field named Version
VersionField == CHOOSE i \in 1..NumField(cfgType) : TypeOf(cfgType)[i].name = <<"Version">>

\* C7: version sync.  When LoadConfig returns nil, the top-level Version in
\* memory is the expected version; if the Version that was loaded differs
\* from it, the file has been written and holds the expected version, whether
\* or not a password was sealed.
C7_VersionSync ==
    [][(call'.version # 0 /\ ret' = "nil") =>
        /\ config'[VersionField] = call'.version
        /\ Loaded[VersionField] # call'.version =>
                /\ call'.changed
                /\ call'.wrote
                /\ file'.exists
                /\ file'.json[VersionField] = call'.version
        /\ Loaded[VersionField] = call'.version =>
                config'[VersionField] = Loaded[VersionField]]_vars

\* a call has rewritten a sealed file for its version alone
C7_Witness ==
    /\ ret = "nil"
    /\ ~call.clean
    /\ call.wrote
    /\ call.sealed = 0
    /\ FilePairs # {}
    /\ file.json[VersionField] = call.version
    /\ config[VersionField] = call.version

\* C8: clean-config mode.  When LoadConfig(cleanConfig=true) has returned
\* nil, it has written the file, the decrypt pass has run once and before the
\* write (the file holds the record the caller holds), and every paired
\* XPassword of the file and of the record holds the text sealed in its
\* XSecurePassword, not a marker.
C8_CleanConfigMode ==
    (call.version # 0 /\ ret = "nil" /\ call.clean) =>
        /\ call.wrote
        /\ call.decodes = 1
        /\ file.exists
        /\ file.json = config
        /\ \A p \in Pairs(cfgType, config) :
                /\ PwOf(config, p) \notin Markers
                /\ decrypt(encryptionKey, SecOf(config, p))
                        = [res |-> "nil", password |-> PwOf(config, p)]

\* a clean load has put a secret back into a file that held its marker
C8_Witness ==
    /\ ret = "nil"
    /\ call.clean
    /\ call.sealed = 0
    /\ \E p \in FilePairs : PwOf(file.json, p) \in Secrets

\* C9: nested and sequence coverage.  When LoadConfig(cleanConfig=false)
\* returns nil, every pair inside a nested struct or inside an element of a
\* slice has its own plaintext in XPassword (the text it was loaded with, or
\* the text sealed in the XSecurePassword it was loaded with when XPassword
\* held a marker) and in XSecurePassword a non-empty value that opens to it.
C9_NestedCoverage ==
    [][Returned(FALSE) =>
        \A p \in Pairs(cfgType, Loaded) :
            p.at # <<>> =>
                LET x == PwOf(Loaded, p)
                    c == SecOf(Loaded, p)
                IN  /\ PwOf(config', p) = (IF x \in Markers THEN c.pt ELSE x)
                    /\ SecOf(config', p) # EmptyString
                    /\ decrypt(encryptionKey', SecOf(config', p))
                            = [res |-> "nil", password |-> PwOf(config', p)]]_vars

\* the scalar fields of a record, at every depth: [at, i]
RECURSIVE Leaves(_, _)
Leaves(ty, v) ==
    UNION { LET f == TypeOf(ty)[i]
            IN  CASE f.kind = "struct" ->
                        {[l EXCEPT !.at = <<i>> \o l.at] : l \in Leaves(f.elem, v[i])}
                  [] f.kind = "slice" ->
                        UNION {{[l EXCEPT !.at = <<i, k>> \o l.at] : l \in Leaves(f.elem, v[i][k])}
                               : k \in 1..Len(v[i])}
                  [] OTHER -> {[at |-> <<>>, i |-> i, name |-> f.name]}
          : i \in 1..NumField(ty) }

\* the fields the two passes may not touch: not named Version and in no pair
Framed(ty, v) ==
    {l \in Leaves(ty, v) :
        /\ l.name # <<"Version">>
        /\ \A p \in Pairs(ty, v) : p.at = l.at => l.i \notin {p.sec, p.pw}}

\* C10: the frame of the walker.  A call of LoadConfig that returns, with or
\* without an error, leaves every field that is neither named Version nor
\* part of a pair as it was loaded, in the record and in the file; the error
\* it returns never names an XSecurePassword that has no XPassword sibling.
C10_Frame ==
    [][(call'.version # 0 /\ config' # NoConfig) =>
        /\ \A l \in Framed(cfgType, Loaded) :
                /\ GetAt(config', l.at)[l.i] = GetAt(Loaded, l.at)[l.i]
                /\ file'.exists => GetAt(file'.json, l.at)[l.i] = GetAt(Loaded, l.at)[l.i]
        /\ ret' = "failed_decode_pw" =>
                \E p \in Pairs(cfgType, Loaded) :
                    \E l \in Leaves(cfgType, Loaded) :
                            /\ l.at = p.at
                            /\ l.i = p.sec
                            /\ l.name = call'.prefix \o SecurePasswordSuffix]_vars

\* a call has sealed and written a record that holds an XSecurePassword
\* without a sibling, and the API fields
C10_Witness ==
    /\ ret = "nil"
    /\ call.wrote
    /\ call.sealed > 0
    /\ \/ /\ cfgType = "OrphanConfig"
          /\ config[2] = Txt("n3wpass")
          /\ file.json[2] = Txt("n3wpass")
       \/ /\ cfgType = "TestConfig"
          /\ config[4] = Txt("plaintext-api-key")
          /\ file.json[5] = Txt("api-secure-key")

\* the scalar fields that carry a default annotation, at every depth
RECURSIVE DefaultTagged(_, _)
DefaultTagged(ty, v) ==
    UNION { LET f == TypeOf(ty)[i]
            IN  CASE f.kind = "struct" ->
                        {[l EXCEPT !.at = <<i>> \o l.at] : l \in DefaultTagged(f.elem, v[i])}
                  [] f.kind = "slice" ->
                        UNION {{[l EXCEPT !.at = <<i, k>> \o l.at]
                                    : l \in DefaultTagged(f.elem, v[i][k])}
                               : k \in 1..Len(v[i])}
                  [] f.tag = {} -> {}
                  [] OTHER -> {[at |-> <<>>, i |-> i, name |-> f.name,
                                kind |-> f.kind, tag |-> CHOOSE d \in f.tag : TRUE]}
          : i \in 1..NumField(ty) }

\* the annotation d as a value of the field's type
Coerced(kind, d) == IF kind = "int" THEN Atoi(d).value ELSE Txt(d)

\* the document on disk names field l
Defines(f, l) == f.exists /\ (l.at # <<>> \/ l.i \in DOMAIN f.json)

\* C11: defaults and missing file.  A call of LoadConfig with a pointer to a
\* record, whose process is not ended for want of a hardware id, returns nil
\* when the file does not exist; and when it returns nil, every scalar field
\* with a default annotation d was loaded with the value the file gives it,
\* or with d coerced to its type when the file does not name it, and still
\* holds that value after the call unless it is named Version.
C11_DefaultsAndMissingFile ==
    [][(call'.version # 0 /\ IsStructPointer(call'.preset) /\ ret' # "exit") =>
        /\ ~file.exists => ret' = "nil"
        /\ ret' = "nil" =>
            \A l \in DefaultTagged(cfgType, Loaded) :
                LET want == IF Defines(file, l) THEN GetAt(file.json, l.at)[l.i]
                            ELSE Coerced(l.kind, l.tag)
                IN  /\ GetAt(Loaded, l.at)[l.i] = want
                    /\ l.name # <<"Version">> => GetAt(config', l.at)[l.i] = want]_vars

\* the error values LoadConfig returns
ErrorReturns == {"config_no_struct", "failed_defaulting", "failed_parsing", "failed_decode_pw"}

\* C12: input validation errors.  A call of LoadConfig whose config argument
\* is no pointer to a struct, or whose file exists and is not valid JSON for
\* the record, returns a non-nil error; no field is sealed, the change flag
\* stays unset, and the file is what it was before the call.
C12_InputValidation ==
    [][(call'.version # 0 /\
            (~IsStructPointer(call'.preset) \/ (file.exists /\ ~ValidJSON(file)))) =>
        /\ ret' \in ErrorReturns
        /\ call'.sealed = 0
        /\ ~call'.changed
        /\ ~call'.wrote
        /\ file' = file]_vars

\* C12 for the calls that find the key set or a hardware id
C12_InputValidation_WithKey ==
    [][(call'.version # 0 /\ ret' # "exit" /\
            (~IsStructPointer(call'.preset) \/ (file.exists /\ ~ValidJSON(file)))) =>
        /\ ret' \in ErrorReturns
        /\ call'.sealed = 0
        /\ ~call'.changed
        /\ ~call'.wrote
        /\ file' = file]_vars

\* the pairs of the file that hold a marker and a value sealed under key k
SealedUnder(k) ==
    {p \in FilePairs :
        /\ p.sec \in DOMAIN GetAt(file.json, p.at)
        /\ PwOf(file.json, p) \in Recognised
        /\ IsSealed(SecOf(file.json, p))
        /\ SecOf(file.json, p).key = k}

\* C13: key memoization.  The first call of LoadConfig that is not ended for
\* want of a hardware id sets the key; a later call, whatever override
\* function it passes, leaves the key and the hardware id as they are and
\* does not call the function; every value on disk sealed under the key of
\* the process opens under the key after the call, and a call that finds
\* every pair of the file sealed under that key returns nil with the
\* plaintexts in memory.
C13_KeyMemoization ==
    [][(call'.version # 0) =>
        /\ (~initialized /\ ret' # "exit") => (initialized' /\ encryptionKey' = KeyOf(hardwareID'))
        /\ initialized =>
            /\ ret' # "exit"
            /\ initialized'
            /\ encryptionKey' = encryptionKey
            /\ hardwareID' = hardwareID
            /\ \A p \in SealedUnder(encryptionKey) :
                    decrypt(encryptionKey', SecOf(file.json, p)).res = "nil"
            /\ (/\ IsStructPointer(call'.preset)
                /\ FilePairs # {}
                /\ SealedUnder(encryptionKey) = FilePairs) =>
                    /\ ret' = "nil"
                    /\ \A p \in FilePairs : PwOf(config', p) = SecOf(file.json, p).pt]_vars

\* a later call of the process, which passed another override function, has
\* opened what an earlier call sealed
C13_Witness ==
    /\ initialized
    /\ ret = "nil"
    /\ ~call.first
    /\ call.sealed = 0
    /\ FilePairs # {}
    /\ \A p \in FilePairs :
            /\ IsSealed(SecOf(file.json, p))
            /\ SecOf(file.json, p).key = encryptionKey
            /\ PwOf(config, p) = Txt("s3cret")

\* C14: hardware identification failure is reported to the caller.  A first
\* call of LoadConfig whose hardware-id source fails (the only first calls
\* that leave the key unset) returns an error value to its caller: the
\* process goes on, no key is installed and the file is neither read into
\* the record nor written.
C14_HardwareIdFailureReported ==
    [][(call'.version # 0 /\ ~initialized /\ ~initialized') =>
        /\ ret' \in ErrorReturns \cup {"hardware_id_failed"}
        /\ alive'
        /\ encryptionKey' = encryptionKey
        /\ file' = file
        /\ ~call'.wrote]_vars

\* the X_SECURE_PASSWORD keys of the .env file whose X_PASSWORD exists
EnvPairs == {k \in Keys(envFile.lines) : IsSecureKey(k) /\ Isset(envFile.lines, PasswordKey(k))}

\* the keys of the .env file that belong to no pair
EnvPlainKeys ==
    {k \in Keys(envFile.lines) : ~IsSecureKey(k) /\ \A s \in EnvPairs : PasswordKey(s) # k}

\* C15: on-disk sealing in the flat form.  After EnvLoader::load with
\* cleanConfig=false on a file in which X_PASSWORD holds a text p that is
\* neither empty nor a marker and X_SECURE_PASSWORD exists, the file holds
\* the marker "Enter new password here" in X_PASSWORD and a ciphertext of p
\* in X_SECURE_PASSWORD, no value of the file is p, and get('X_PASSWORD')
\* returns p.
C15_FlatOnDiskSealing ==
    [][(envCall'.op = "load" /\ ~envCall'.clean) =>
        \A k \in EnvPairs :
            LET p == Lookup(envFile.lines, PasswordKey(k))
            IN  p \notin {Txt(""), PASSWORD_IS_SECURE_EN, PASSWORD_IS_SECURE_DE} =>
                    /\ Lookup(envFile'.lines, PasswordKey(k)) = PASSWORD_IS_SECURE_EN
                    /\ envDecrypt(envKey', Lookup(envFile'.lines, k)) = [ok |-> TRUE, text |-> p]
                    /\ \A i \in 1..Len(envFile'.lines) : envFile'.lines[i].value # p
                    /\ cache'[PasswordKey(k)] = p]_vars

\* C16: the override flag of the flat form, for the keys of the file that
\* belong to no password pair.  After EnvLoader::load with override=false,
\* such a key that was in the cache, in $_ENV or in the process environment
\* before the call has there the value it had; with override=true it has
\* the file's value in the cache, in $_ENV and in the process environment.
C16_FlatOverrideFlag ==
    [][envCall'.op = "load" =>
        /\ ~envCall'.override =>
                \A k \in EnvPlainKeys :
                    /\ k \in DOMAIN cache => cache'[k] = cache[k]
                    /\ k \in DOMAIN ENV => ENV'[k] = ENV[k]
                    /\ k \in DOMAIN environ => environ'[k] = environ[k]
        /\ envCall'.override =>
                \A k \in EnvPlainKeys :
                    /\ cache'[k] = Lookup(envFile.lines, k)
                    /\ ENV'[k] = Lookup(envFile.lines, k)
                    /\ environ'[k] = Lookup(envFile.lines, k)]_vars

\* C16 for the calls with override=true
C16_FlatOverrideFlag_Override ==
    [][(envCall'.op = "load" /\ envCall'.override) =>
        \A k \in EnvPlainKeys :
            /\ cache'[k] = Lookup(envFile.lines, k)
            /\ ENV'[k] = Lookup(envFile.lines, k)
            /\ environ'[k] = Lookup(envFile.lines, k)]_vars

\* a step of LoadConfig in which the seal pass ran
SealPassRan == call'.version # 0 /\ ret' \in {"nil", "failed_decode_pw", "panic"}

\* the pairs the seal pass found with the empty string in XPassword
EmptyPairs == {p \in Pairs(cfgType, Loaded) : PwOf(Loaded, p) = EmptyString}

\* C17: an empty secret is a no-op.  In the seal pass of LoadConfig a pair
\* whose XPassword is the empty string is left untouched: the pass calls
\* encrypt for no such pair (the change flag is not set because of it), and
\* the file the call writes has the empty string in its XPassword and the
\* loaded value in its XSecurePassword.
C17_EmptySecretNoOp ==
    [][SealPassRan =>
        /\ call'.sealed <= Cardinality(Pairs(cfgType, Loaded) \ EmptyPairs)
        /\ \A p \in EmptyPairs :
                call'.wrote => /\ PwOf(file'.json, p) = EmptyString
                               /\ SecOf(file'.json, p) = SecOf(Loaded, p)]_vars

\* the record of a step of LoadConfig after the seal pass, as the decrypt
\* pass finds it
SealPassResult ==
    updateVersionAndPasswords(Globals', cfgType, call'.version,
        [v |-> Loaded, changed |-> FALSE, used |-> NoncesInUse]).v

\* a step of LoadConfig in which the decrypt pass ran
DecryptPassRan == call'.version # 0 /\ call'.decodes > 0

\* C18: the decrypt pass skips an empty ciphertext.  When the decrypt pass
\* runs on a record in which every non-empty XSecurePassword opens under the
\* key of the process, the call neither crashes nor returns an error, and
\* every pair whose XSecurePassword is the empty string has its XPassword
\* unchanged by the pass.
C18_DecryptSkipsEmpty ==
    [][DecryptPassRan =>
        \E S \in {SealPassResult} :
            (\A q \in Pairs(cfgType, S) :
                SecOf(S, q) # EmptyString => decrypt(encryptionKey', SecOf(S, q)).res = "nil")
            => /\ ret' = "nil"
               /\ \A p \in Pairs(cfgType, S) :
                    SecOf(S, p) = EmptyString => PwOf(config', p) = PwOf(S, p)]_vars

\* whether base64.StdEncoding.DecodeString accepts the text: the alphabet
\* only, in quanta of 4 characters with padding.  The empty string is valid.
ValidBase64(x) ==
    IsSealed(x) \/ x \in {Txt(""), Txt("QUJDREVGR0hJSktMTU5PUA==")}

\* the texts decrypt has to refuse under key k: no base64, fewer bytes than a
\* nonce and a tag, or no seal under k
Unopenable(k, x) ==
    \/ ~ValidBase64(x)
    \/ StdDecodedLen(x) < NonceSize + TagSize
    \/ ~(IsSealed(x) /\ x.key = k)

\* C19: open fails as an error value.  For every text the decrypt pass of a
\* call hands to decrypt, decrypt terminates normally, and it returns a
\* non-nil error when the text is no valid base64, decodes to fewer than
\* 12+16 bytes, or is no seal under the key of the process.
C19_OpenFailsAsError ==
    [][DecryptPassRan =>
        \E S \in {SealPassResult} :
            \A p \in Pairs(cfgType, S) :
                \E d \in {decrypt(encryptionKey', SecOf(S, p))} :
                    /\ d.res # "panic"
                    /\ Unopenable(encryptionKey', SecOf(S, p)) => d.res = "err"]_vars

\* decrypt returns an error, and does not crash, on texts that decode to at
\* least a nonce
C19_OpenFailsAsError_FromNonceSize ==
    [][DecryptPassRan =>
        \E S \in {SealPassResult} :
            \A p \in Pairs(cfgType, S) :
                \E d \in {decrypt(encryptionKey', SecOf(S, p))} :
                    /\ StdDecodedLen(SecOf(S, p)) >= NonceSize => d.res # "panic"
                    /\ (Unopenable(encryptionKey', SecOf(S, p))
                            /\ StdDecodedLen(SecOf(S, p)) >= NonceSize) => d.res = "err"]_vars

\* the decrypt pass met a text of 16 bytes and the call returned the error
C19_ShortTextSeen ==
    /\ call.version # 0
    /\ ret = "failed_decode_pw"
    /\ \E p \in FilePairs : SecOf(file.json, p) = Txt("QUJDREVGR0hJSktMTU5PUA==")

\* the struct type at a path of a record of type ty
RECURSIVE TypeAt(_, _)
TypeAt(ty, path) ==
    IF path = <<>> THEN ty
    ELSE LET f == TypeOf(ty)[Head(path)]
         IN  IF f.kind = "slice" THEN TypeAt(f.elem, Tail(Tail(path)))
             ELSE TypeAt(f.elem, Tail(path))

\* the order in which the passes visit fields: the order of their paths
RECURSIVE VisitedBefore(_, _)
VisitedBefore(a, b) ==
    /\ b # <<>>
    /\ \/ a = <<>>
       \/ Head(a) < Head(b)
       \/ Head(a) = Head(b) /\ VisitedBefore(Tail(a), Tail(b))

\* the prefix X of pair p
PrefixOf(p) == TrimSuffix(TypeOf(TypeAt(cfgType, p.at))[p.sec].name, SecurePasswordSuffix)

\* the pairs of record S whose XSecurePassword does not open under key k
Failing(k, S) == {p \in Pairs(cfgType, S) : decrypt(k, SecOf(S, p)).res # "nil"}

\* the first of them in declaration order
FirstFailing(k, S) ==
    CHOOSE f \in Failing(k, S) :
        \A q \in Failing(k, S) \ {f} : VisitedBefore(f.at \o <<f.sec>>, q.at \o <<q.sec>>)

\* what C20 says of a call whose decrypt pass finds the record S and fails
\* first at pair f
FailsFastAt(S, f) ==
    /\ ret' = "failed_decode_pw"
    /\ call'.prefix = PrefixOf(f)
    /\ \A q \in Pairs(cfgType, S) :
        /\ (q = f \/ VisitedBefore(f.at \o <<f.sec>>, q.at \o <<q.sec>>))
                => PwOf(config', q) = PwOf(S, q)
        /\ \/ PwOf(config', q) = PwOf(S, q)
           \/ \E d \in {decrypt(encryptionKey', SecOf(S, q))} :
                d.res = "nil" /\ PwOf(config', q) = d.password

\* C20: fail-fast decrypt pass.  When the decrypt pass of a call meets a pair
\* whose XSecurePassword does not open, LoadConfig returns a non-nil error
\* that names the prefix of the first such pair; the XPassword of that pair
\* and of every later pair is as the seal pass left it, and every XPassword
\* that changed holds the result of a successful open.
C20_FailFastDecryptPass ==
    [][DecryptPassRan =>
        \E S \in {SealPassResult} :
            Failing(encryptionKey', S) # {} => FailsFastAt(S, FirstFailing(encryptionKey', S))]_vars

\* the same for the calls in which decrypt returns its failure as an error
C20_FailFastDecryptPass_OnError ==
    [][DecryptPassRan =>
        \E S \in {SealPassResult} :
            (/\ Failing(encryptionKey', S) # {}
             /\ \E f \in {FirstFailing(encryptionKey', S)} :
                    decrypt(encryptionKey', SecOf(S, f)).res = "err")
            => FailsFastAt(S, FirstFailing(encryptionKey', S))]_vars

\* a call failed at the second pair of a record after it had opened the first
C20_FailedAtSecondPair ==
    /\ call.version # 0
    /\ ret = "failed_decode_pw"
    /\ cfgType = "NestedTestConfig"
    /\ config # NoConfig
    /\ \E p \in Pairs(cfgType, config) : PwOf(config, p) \in Secrets \cup {EmptyString}
    /\ \E p \in Pairs(cfgType, config) : PwOf(config, p) \in Recognised

\* a step of LoadConfig that reached the decision of sconfig.go:856: the seal
\* pass ran and the decrypt pass of the clean mode, if any, did not fail
WriteDecided == SealPassRan /\ (call'.clean => ret' = "nil")

C21_MissingFileNotCreated ==
    /\ call.version # 0
    /\ ret = "nil"
    /\ ~file.exists

\* C22: Version at every depth.  The seal pass sets every field named
\* Version, at the top level, in nested structs and in the struct elements of
\* slices, to the expected version of the call; if one of them differed, the
\* change flag is set and a call that reaches the write writes a file whose
\* Version fields all hold the expected version.  After a call that returned
\* nil no Version field of the record differs from the expected version.
C22_VersionAtEveryDepth ==
    [][SealPassRan =>
        \E L \in {Loaded}, S \in {SealPassResult}, F \in {file'.json}, C \in {config'} :
            /\ VersionsOf(cfgType, S) = {call'.version}
            /\ VersionsOf(cfgType, L) # {call'.version} =>
                    /\ call'.changed
                    /\ WriteDecided => /\ call'.wrote
                                       /\ VersionsOf(cfgType, F) = {call'.version}
            /\ ret' = "nil" => VersionsOf(cfgType, C) = {call'.version}]_vars

\* a call has rewritten a file with nested records, or with records in a
\* slice, for the Version fields alone
C22_Witness ==
    /\ Tree
    /\ call.version # 0
    /\ ret = "nil"
    /\ ~call.clean
    /\ ~call.first
    /\ call.wrote
    /\ call.sealed = 0
    /\ FilePairs # {}
    /\ VersionsOf(cfgType, file.json) = {call.version}
    /\ VersionsOf(cfgType, config) = {call.version}

\* the pairs of the file in which a user typed a new secret next to the seal
\* of an older one
Retyped ==
    {p \in FilePairs :
        /\ PwOf(file.json, p) \notin Markers \cup {EmptyString}
        /\ IsSealed(SecOf(file.json, p))
        /\ SecOf(file.json, p).pt # PwOf(file.json, p)}

\* C23: password change.  When LoadConfig(cleanConfig=false) returns nil on a
\* file in which the XPassword of a pair holds a new plaintext q, not empty
\* and no marker, next to the ciphertext of an older secret, the file then
\* holds the marker in XPassword and a new seal of q in XSecurePassword, and
\* the record in memory holds q in XPassword and that seal in XSecurePassword.
C23_PasswordChange ==
    [][Returned(FALSE) =>
        \A p \in Retyped :
            /\ file'.exists
            /\ PwOf(file'.json, p) = PASSWORD_IS_SECURE'
            /\ SecOf(file'.json, p) # SecOf(file.json, p)
            /\ IsSealed(SecOf(file'.json, p))
            /\ SecOf(file'.json, p).key = encryptionKey'
            /\ SecOf(file'.json, p).pt = PwOf(file.json, p)
            /\ PwOf(config', p) = PwOf(file.json, p)
            /\ SecOf(config', p) = SecOf(file'.json, p)]_vars

\* a call has sealed a secret typed over the marker of a sealed file whose
\* ciphertext held another secret
C23_Witness ==
    /\ call.version # 0
    /\ ret = "nil"
    /\ ~call.clean
    /\ edits > 0
    /\ call.sealed > 0
    /\ call.wrote
    /\ \E p \in FilePairs :
        /\ PwOf(file.json, p) \in Recognised
        /\ PwOf(config, p) = Txt("n3wpass")
        /\ IsSealed(SecOf(file.json, p))
        /\ SecOf(file.json, p).pt = Txt("n3wpass")
        /\ SecOf(file.json, p).nonce > 1

\* a record of ChainConfig as the same fields of ChainConfigReordered, and back
Reordered(v) == IF v = NoConfig THEN v ELSE <<v[1], v[2], v[4], v[3]>>

\* a string without the nonces of the seals in it
RECURSIVE WithoutNonce(_)
WithoutNonce(x) ==
    IF IsSealed(x) THEN [key |-> x.key, pt |-> WithoutNonce(x.pt)] ELSE x

\* a record of ChainConfig without the nonces of its ciphertexts
UpToNonces(v) ==
    IF v = NoConfig THEN v
    ELSE <<v[1], WithoutNonce(v[2]), WithoutNonce(v[3]), WithoutNonce(v[4])>>

\* C24: pair independence.  On a record with two fields whose names end in
\* SecurePassword, a call of LoadConfig ends as the same call does on the
\* record with the two fields declared in the other order: the same result,
\* and up to the nonces of the ciphertexts the same record in memory and the
\* same document in the file.
C24_PairIndependence ==
    [][(cfgType = "ChainConfig" /\ SealPassRan) =>
        \E r \in {Load(Globals', "ChainConfigReordered",
                       [file EXCEPT !.json = Reordered(@)], Reordered(call'.preset),
                       call'.version, call'.clean, NoncesInUse)} :
            /\ ret' = r.ret
            /\ call'.wrote = r.wrote
            /\ file'.exists = r.file.exists
            /\ UpToNonces(file'.json) = UpToNonces(Reordered(r.file.json))
            /\ ret' # "panic" => UpToNonces(config') = UpToNonces(Reordered(r.config))]_vars

\* the strings of a list
Range(ids) == {ids[i] : i \in 1..Len(ids)}

\* C25: canonical identifier list.  The list the default hardware-id function
\* joins and hashes is strictly ascending, sorted and free of duplicates, and
\* the id the call returns is the id of every call whose probes report the
\* same set of strings.
C25_CanonicalIdentifierList ==
    hwid.ok =>
        /\ \A i, j \in 1..Len(identifiers) : i < j => StringLess(identifiers[i], identifiers[j])
        /\ \A r \in Reports : Range(r) = Range(probes) => hardwareIDOf(r).id = hwid.id

\* the list is ascending, holds what the probes reported as often as they
\* reported it, and the id does not depend on the order of the reports
C25_SortedNotDeduplicated ==
    hwid.ok =>
        /\ \A i, j \in 1..Len(identifiers) : i < j => ~StringLess(identifiers[j], identifiers[i])
        /\ Len(identifiers) = Len(probes)
        /\ \A x \in IdentifierStrings :
                Cardinality({i \in 1..Len(identifiers) : identifiers[i] = x})
                    = Cardinality({i \in 1..Len(probes) : probes[i] = x})
        /\ \A r \in Reports :
                (/\ Len(r) = Len(probes)
                 /\ \A x \in IdentifierStrings :
                        Cardinality({i \in 1..Len(r) : r[i] = x})
                            = Cardinality({i \in 1..Len(probes) : probes[i] = x}))
                => hardwareIDOf(r).id = hwid.id

\* the probes reported out of order, and one string twice
C25_UnorderedReportsSeen ==
    /\ hwid.ok
    /\ probes = <<<<66>>, <<65, 66>>, <<65>>, <<65, 66>>>>
    /\ identifiers = <<<<65>>, <<65, 66>>, <<65, 66>>, <<66>>>>

\* the key with the prefix of k and the suffix _PASSWORD in the letter case of k
SameCasePasswordKey(k) == SubSeq(k, 1, Len(k) - 2) \o <<k[Len(k)]>>

\* the keys of the file that end in _SECURE_PASSWORD in some letter case and
\* stand next to a plaintext under the key with the same prefix and case
EnvPlaintextPairs ==
    {k \in Keys(envFile.lines) :
        /\ IsSecureKey(k)
        /\ Isset(envFile.lines, SameCasePasswordKey(k))
        /\ Lookup(envFile.lines, SameCasePasswordKey(k))
                \notin {PASSWORD_IS_SECURE_EN, PASSWORD_IS_SECURE_DE, Txt("")}}

\* what load(cleanConfig=false) does with the pair of key k
SealedAndOpened(k) ==
    /\ IsSealed(Lookup(envFile'.lines, k))
    /\ Lookup(envFile'.lines, k).pt = Lookup(envFile.lines, SameCasePasswordKey(k))
    /\ SameCasePasswordKey(k) \in DOMAIN cache'
    /\ cache'[SameCasePasswordKey(k)] = Lookup(envFile.lines, SameCasePasswordKey(k))
    /\ Keys(envFile'.lines) = Keys(envFile.lines)

\* C26: flat-form pairing is case-insensitive.  EnvLoader::load seals and
\* opens the pair of every key that ends in _SECURE_PASSWORD, in upper or in
\* lower case, with the key of the same prefix and the same letter case: the
\* file then holds a seal of the plaintext under the secure key, the cache
\* holds the plaintext under the password key, and the file has no other keys
\* than before.
C26_FlatPairingCaseInsensitive ==
    [][(envCall'.op = "load" /\ ~envCall'.clean) =>
        \A k \in EnvPlaintextPairs : SealedAndOpened(k)]_vars

\* the same for the pairs whose keys are in upper case
C26_FlatPairingUpperCase ==
    [][(envCall'.op = "load" /\ ~envCall'.clean) =>
        \A k \in EnvPlaintextPairs : k = DB_SECURE_PASSWORD => SealedAndOpened(k)]_vars

\* the array the decrypt pass of a call of load finds: the file in the clean
\* mode, and what processPasswords made of it otherwise
EnvDecryptInput ==
    IF envCall'.clean THEN envFile.lines
    ELSE processPasswords(envFile.lines, envKey', EnvNoncesInUse).parsed

\* its keys in _SECURE_PASSWORD whose value is not empty and does not open
\* under the key of the process
EnvUnopenable ==
    {k \in Keys(EnvDecryptInput) :
        /\ IsSecureKey(k)
        /\ ~Empty(Lookup(EnvDecryptInput, k))
        /\ ~envDecrypt(envKey', Lookup(EnvDecryptInput, k)).ok}

\* C27: a flat-form decryption failure is surfaced.  A call of EnvLoader::load
\* that completes in the loaded state has met no non-empty X_SECURE_PASSWORD
\* value that does not open under the key of the process.
C27_FlatDecryptFailureSurfaced ==
    [][(envCall'.op = "load" /\ envLoaded') => EnvUnopenable = {}]_vars

C29_NoFileChangeOnError ==
    [][(call'.version # 0 /\ ret' \in ErrorReturns \cup {"hardware_id_failed"})
            => (file' = file /\ ~call'.wrote)]_vars

\* C29, on every error other than the decrypt failure: the file is what it was
\* before the call.
C29_NoFileChangeOnError_BeforeSealPass ==
    [][(call'.version # 0
            /\ ret' \in (ErrorReturns \cup {"hardware_id_failed"}) \ {"failed_decode_pw"})
            => (file' = file /\ ~call'.wrote)]_vars

\* a load has rewritten the file and then failed in the decrypt pass
C29_WroteThenFailed ==
    /\ call.version # 0
    /\ ret = "failed_decode_pw"
    /\ ~call.clean
    /\ call.wrote

\* the goroutines whose seal pass has read the key and the marker
Sealing == {g \in Goroutines : goroutine[g].pc \in {"open", "done"}}

\* what C30 promises the goroutines of a process
OnceOnly ==
    /\ derivations <= 1
    /\ \A g \in Goroutines : goroutine[g].derived => g = firstCall
    /\ \A g \in Sealing :
            /\ goroutine[g].sealKey = KeyOf(goroutine[firstCall].hw.id)
            /\ \A h \in Sealing : goroutine[h].sealMark = goroutine[g].sealMark
            /\ goroutine[g].pc = "done" => goroutine[g].openKey = goroutine[g].sealKey

\* C30: once-only initialisation under concurrent first use.  When two
\* goroutines call LoadConfig at the same time as the first calls of the
\* process, with whatever hardware-id functions and while the active language
\* is switched, the key derivation and the marker setup of config_init run
\* once, in the goroutine that called first, and both goroutines seal and open
\* with the same key and the same marker.
C30_OnceOnlyInitialisation == OnceOnly

\* C30, for calls one after the other: when no goroutine enters LoadConfig
\* while another is in it, config_init runs once, in the first call, and every
\* call seals and opens with its key and its marker.
C30_OnceOnlyInitialisation_Serialised == ~overlapped => OnceOnly

\* both goroutines have derived a key and finished their calls
C30_BothDerived ==
    /\ derivations = 2
    /\ \A g \in Goroutines : goroutine[g].pc = "done"

====
